---- MODULE Spec2Model ----
(***************************************************************************)
(* Product / SubscriptionPlan microservice: boundary adapters (handler),   *)
(* entity services and the GORM-backed repositories.                       *)
(*                                                                         *)
(* A request is one independent execution unit.  Between two storage      *)
(* calls of one request any other request may run, so every storage call  *)
(* is one atomic step and the pure code around it (validation, identifier *)
(* parsing, error wrapping, status mapping) is executed with the step     *)
(* that precedes it.                                                       *)
(*                                                                         *)
(* Prices are float64 in the source; the model uses integers, which keep  *)
(* the only distinctions the code makes (price < 0, price = 0).           *)
(* Timestamps and preloaded associations are not modelled.                *)
(***************************************************************************)
EXTENDS Integers, Sequences, FiniteSets, TLC

\* ------------------------------------------------------------------ bounds
\* number of identifiers uuid.New() can hand out in one behaviour
MaxId == 2

\* request slots
Procs == {"r1", "r2"}

\* ------------------------------------------------------- program constants
DefaultPage == 1
DefaultPageSize == 10
MaxPageSize == 100
MinPageSize == 1
MaxNameLen == 255
MaxDuration == 3650

\* ------------------------------------------------------------ identifiers
\* uuid.Nil
NilUUID == 0

\* identifiers a client can name: the ones uuid.New() can return and one
\* that is never assigned
UUIDs == 1..(MaxId + 1)

\* External identifier strings, as <<form, value>>:
\*   "empty"  the empty string
\*   "bad"    a string uuid.Parse rejects
\*   "canon"  xxxxxxxx-xxxx-xxxx-xxxx-xxxxxxxxxxxx
\*   "urn"    urn:uuid:xxxxxxxx-...   (uuid.Parse accepts it as well)
EmptyStr == <<"empty", NilUUID>>
BadStr == <<"bad", NilUUID>>

\* uuid.UUID.String()
UUIDString(u) == <<"canon", u>>

\* ----------------------------------------------------------------- errors
NoErr == [kind |-> "nil"]

NewValidationError(field, message) ==
    [kind |-> "Validation", field |-> field, message |-> message]

NewNotFoundError(resource, id) ==
    [kind |-> "NotFound", resource |-> resource, id |-> id]

NewDatabaseError(operation, err) ==
    [kind |-> "Database", operation |-> operation, cause |-> err]

\* errors.New(msg) and the errors of the gorm driver
RawErr(msg) == [kind |-> "raw", msg |-> msg]

\* a storage failure that is not the not-found signal
ErrConn == RawErr("connection refused")

\* errors.As(err, &target): walks the Unwrap chain of DatabaseError
RECURSIVE ErrorsAs(_, _)
ErrorsAs(err, kind) ==
    IF err.kind = kind THEN TRUE
    ELSE IF err.kind = "Database" THEN ErrorsAs(err.cause, kind)
    ELSE FALSE

IsValidationError(err) == ErrorsAs(err, "Validation")
IsNotFoundError(err) == ErrorsAs(err, "NotFound")
IsDatabaseError(err) == ErrorsAs(err, "Database")

\* ----------------------------------------------------- identifier parsing
ParseProductID(id) ==
    IF id = EmptyStr
      THEN [uuid |-> NilUUID,
            err |-> NewValidationError("productId", "product ID is required")]
    ELSE IF id[1] \notin {"canon", "urn"}
      THEN [uuid |-> NilUUID,
            err |-> NewValidationError("productId", "invalid product ID format")]
    ELSE [uuid |-> id[2], err |-> NoErr]

\* variant without the format check
ParsePlanID_NoFormatCheck(id) ==
    IF id = EmptyStr
      THEN [uuid |-> NilUUID,
            err |-> NewValidationError("id", "subscription plan ID is required")]
    ELSE [uuid |-> id[2], err |-> NoErr]

ParsePlanID(id) ==
    IF id = EmptyStr
      THEN [uuid |-> NilUUID,
            err |-> NewValidationError("id", "subscription plan ID is required")]
    ELSE IF id[1] \notin {"canon", "urn"}
      THEN [uuid |-> NilUUID,
            err |-> NewValidationError("id", "invalid subscription plan ID format")]
    ELSE [uuid |-> id[2], err |-> NoErr]

\* ------------------------------------------------------------- validation
\* variant without the price rule
ValidateProductInput_NoPriceRule(name, price, productType) ==
    IF name = "" THEN NewValidationError("name", "product name is required")
    ELSE IF Len(name) > MaxNameLen
      THEN NewValidationError("name", "product name must be less than 255 characters")
    ELSE IF productType = ""
      THEN NewValidationError("productType", "product type is required")
    ELSE NoErr

\* variant that tests the type before the price
ValidateProductInput_TypeFirst(name, price, productType) ==
    IF name = "" THEN NewValidationError("name", "product name is required")
    ELSE IF Len(name) > MaxNameLen
      THEN NewValidationError("name", "product name must be less than 255 characters")
    ELSE IF productType = ""
      THEN NewValidationError("productType", "product type is required")
    ELSE IF price < 0 THEN NewValidationError("price", "price cannot be negative")
    ELSE NoErr

ValidateProductInput(name, price, productType) ==
    IF name = "" THEN NewValidationError("name", "product name is required")
    ELSE IF Len(name) > MaxNameLen
      THEN NewValidationError("name", "product name must be less than 255 characters")
    ELSE IF price < 0 THEN NewValidationError("price", "price cannot be negative")
    ELSE IF productType = ""
      THEN NewValidationError("productType", "product type is required")
    ELSE NoErr

\* variant whose upper duration bound is exclusive
ValidateSubscriptionInput_Exclusive(planName, duration, price) ==
    IF planName = "" THEN NewValidationError("planName", "plan name is required")
    ELSE IF Len(planName) > MaxNameLen
      THEN NewValidationError("planName", "plan name must be less than 255 characters")
    ELSE IF duration <= 0
      THEN NewValidationError("duration", "duration must be positive")
    ELSE IF duration >= MaxDuration
      THEN NewValidationError("duration", "duration cannot exceed 3650 days")
    ELSE IF price < 0 THEN NewValidationError("price", "price cannot be negative")
    ELSE NoErr

ValidateSubscriptionInput(planName, duration, price) ==
    IF planName = "" THEN NewValidationError("planName", "plan name is required")
    ELSE IF Len(planName) > MaxNameLen
      THEN NewValidationError("planName", "plan name must be less than 255 characters")
    ELSE IF duration <= 0
      THEN NewValidationError("duration", "duration must be positive")
    ELSE IF duration > MaxDuration
      THEN NewValidationError("duration", "duration cannot exceed 3650 days")
    ELSE IF price < 0 THEN NewValidationError("price", "price cannot be negative")
    ELSE NoErr

NormalizePage(page) == IF page < MinPageSize THEN DefaultPage ELSE page

\* variant that does not clamp
NormalizePageSize_NoClamp(pageSize) ==
    IF pageSize < MinPageSize THEN DefaultPageSize ELSE pageSize

NormalizePageSize(pageSize) ==
    IF pageSize < MinPageSize THEN DefaultPageSize
    ELSE IF pageSize > MaxPageSize THEN MaxPageSize
    ELSE pageSize

\* ----------------------------------------------------------------- inputs
\* external identifier strings a client sends
IdStrings ==
    {EmptyStr, BadStr, <<"urn", 1>>} \cup {UUIDString(u) : u \in UUIDs}

\* names of length 255 and 256
Name255 == "nnnnnnnnnnnnnnnnnnnnnnnnnnnnnnnnnnnnnnnnnnnnnnnnnnnnnnnnnnnnnnnnnnnnnnnnnnnnnnnnnnnnnnnnnnnnnnnnnnnnnnnnnnnnnnnnnnnnnnnnnnnnnnnnnnnnnnnnnnnnnnnnnnnnnnnnnnnnnnnnnnnnnnnnnnnnnnnnnnnnnnnnnnnnnnnnnnnnnnnnnnnnnnnnnnnnnnnnnnnnnnnnnnnnnnnnnnnnnnnnnnnnnnnnnnnnnnn"

Name256 == "nnnnnnnnnnnnnnnnnnnnnnnnnnnnnnnnnnnnnnnnnnnnnnnnnnnnnnnnnnnnnnnnnnnnnnnnnnnnnnnnnnnnnnnnnnnnnnnnnnnnnnnnnnnnnnnnnnnnnnnnnnnnnnnnnnnnnnnnnnnnnnnnnnnnnnnnnnnnnnnnnnnnnnnnnnnnnnnnnnnnnnnnnnnnnnnnnnnnnnnnnnnnnnnnnnnnnnnnnnnnnnnnnnnnnnnnnnnnnnnnnnnnnnnnnnnnnnnn"

ValidProduct1 ==
    [name |-> "Widget", description |-> "d", price |-> 9, productType |-> "digital"]

\* valid, with the zero values validation accepts: empty description, price 0
ValidProduct2 ==
    [name |-> "Gadget", description |-> "", price |-> 0, productType |-> "physical"]

ProductInputs ==
    { ValidProduct1, ValidProduct2,
      [name |-> "", description |-> "d", price |-> 9, productType |-> "digital"],
      [name |-> "Widget", description |-> "d", price |-> -1, productType |-> ""],
      [name |-> Name256, description |-> "d", price |-> 9, productType |-> "digital"] }

ValidPlan1 == [planName |-> "Monthly", duration |-> 30, price |-> 9]

ValidPlan2 == [planName |-> "Annual", duration |-> 365, price |-> 0]

PlanInputs ==
    { ValidPlan1, ValidPlan2,
      [planName |-> "", duration |-> 30, price |-> 9],
      [planName |-> "Monthly", duration |-> 3651, price |-> -1],
      [planName |-> "Monthly", duration |-> 0, price |-> 9] }

ListInputs ==
    { [productType |-> "", page |-> 0, pageSize |-> 0],
      [productType |-> "digital", page |-> 2, pageSize |-> 1],
      [productType |-> "", page |-> 1, pageSize |-> 1000],
      [productType |-> "", page |-> 1, pageSize |-> 10],
      [productType |-> "digital", page |-> -1, pageSize |-> 101],
      [productType |-> "", page |-> 3, pageSize |-> 100] }

NoInput == [none |-> TRUE]


\* ------------------------------------------------------------------ state
VARIABLES
    products,   \* table "products": id -> row, tombstoned rows included
    plans,      \* table "subscription_plans": id -> row, tombstoned rows included
    nextId,     \* the identifier the next uuid.New() returns
    req,        \* per request slot: the RPC in progress, its position and result
    hist,       \* per request slot: what the storage looked like at its steps
    pristine    \* id -> the inputs of its Create, until an Update or Delete of it

vars == <<products, plans, nextId, req, hist, pristine>>

\* ---------------------------------------------------------- gorm, generic
\* a row the default (soft-delete) scope sees
Live(tbl, id) == id \in DOMAIN tbl /\ ~tbl[id].deleted

\* gorm Updates(struct): only the non-zero fields of the struct are written
NonZeroStr(new, old) == IF new = "" THEN old ELSE new

NonZeroNum(new, old) == IF new = 0 THEN old ELSE new

\* SELECT without ORDER BY: the database returns the selected rows in an
\* order of its own choice, any enumeration of their ids
Orders(ids) ==
    {o \in [1..Cardinality(ids) -> ids] :
        \A i, j \in 1..Cardinality(ids) : i # j => o[i] # o[j]}

\* the rows of a result set, in the order the database returned them
RowsOf(tbl, order) == [i \in 1..Len(order) |-> tbl[order[i]]]

\* OFFSET off LIMIT lim
Slice(s, off, lim) ==
    LET lo == off + 1
        hi == IF off + lim < Len(s) THEN off + lim ELSE Len(s)
    IN IF lo > hi THEN <<>> ELSE SubSeq(s, lo, hi)

\* ------------------------------------------------------------- models
\* mutant: the hook leaves the identifier nil
ProductBeforeCreate_NoId(p, fresh) == p

\* Product.BeforeCreate
ProductBeforeCreate(p, fresh) == IF p.id = NilUUID THEN [p EXCEPT !.id = fresh] ELSE p

\* SubscriptionPlan.BeforeCreate
\* variant that leaves the identifier unset
SubscriptionPlanBeforeCreate_NoId(s, fresh) == s

SubscriptionPlanBeforeCreate(s, fresh) ==
    IF s.id = NilUUID THEN [s EXCEPT !.id = fresh] ELSE s

\* ------------------------------------------------------ productRepository
ProductRepoCreate(tbl, product, fresh, fault) ==
    IF fault THEN [err |-> ErrConn, tbl |-> tbl, ent |-> product]
    ELSE LET row == ProductBeforeCreate(product, fresh)
         IN [err |-> NoErr, tbl |-> (row.id :> row) @@ tbl, ent |-> row]

\* mutant: reads through the tombstone (Unscoped)
ProductRepoGetByID_Unscoped(tbl, id, fault) ==
    IF fault THEN [ent |-> <<>>, err |-> ErrConn]
    ELSE IF id \notin DOMAIN tbl THEN [ent |-> <<>>, err |-> RawErr("product not found")]
    ELSE [ent |-> <<tbl[id]>>, err |-> NoErr]

ProductRepoGetByID(tbl, id, fault) ==
    IF fault THEN [ent |-> <<>>, err |-> ErrConn]
    ELSE IF ~Live(tbl, id) THEN [ent |-> <<>>, err |-> RawErr("product not found")]
    ELSE [ent |-> <<tbl[id]>>, err |-> NoErr]

\* mutant: RowsAffected is not looked at
ProductRepoUpdate_NoRowsCheck(tbl, product, fault) ==
    IF fault THEN [err |-> ErrConn, tbl |-> tbl]
    ELSE IF ~Live(tbl, product.id) THEN [err |-> NoErr, tbl |-> tbl]
    ELSE LET old == tbl[product.id]
             row == [old EXCEPT
                       !.name = NonZeroStr(product.name, old.name),
                       !.description = NonZeroStr(product.description, old.description),
                       !.price = NonZeroNum(product.price, old.price),
                       !.productType = NonZeroStr(product.productType, old.productType)]
         IN [err |-> NoErr, tbl |-> [tbl EXCEPT ![product.id] = row]]

ProductRepoUpdate(tbl, product, fault) ==
    IF fault THEN [err |-> ErrConn, tbl |-> tbl]
    ELSE IF ~Live(tbl, product.id)
      THEN [err |-> RawErr("product not found"), tbl |-> tbl]
    ELSE LET old == tbl[product.id]
             row == [old EXCEPT
                       !.name = NonZeroStr(product.name, old.name),
                       !.description = NonZeroStr(product.description, old.description),
                       !.price = NonZeroNum(product.price, old.price),
                       !.productType = NonZeroStr(product.productType, old.productType)]
         IN [err |-> NoErr, tbl |-> [tbl EXCEPT ![product.id] = row]]

\* variant that removes the row
ProductRepoDelete_Hard(tbl, id, fault) ==
    IF fault THEN [err |-> ErrConn, tbl |-> tbl]
    ELSE IF ~Live(tbl, id) THEN [err |-> RawErr("product not found"), tbl |-> tbl]
    ELSE [err |-> NoErr, tbl |-> [i \in DOMAIN tbl \ {id} |-> tbl[i]]]

ProductRepoDelete(tbl, id, fault) ==
    IF fault THEN [err |-> ErrConn, tbl |-> tbl]
    ELSE IF ~Live(tbl, id) THEN [err |-> RawErr("product not found"), tbl |-> tbl]
    ELSE [err |-> NoErr, tbl |-> [tbl EXCEPT ![id].deleted = TRUE]]

\* the rows List selects: the default scope hides tombstoned rows, the
\* type filter applies when it is not empty
ProductMatching(tbl, productType) ==
    {i \in DOMAIN tbl :
        /\ ~tbl[i].deleted
        /\ (productType # "" => tbl[i].productType = productType)}

\* variant that counts the tombstoned rows too
ProductRepoCount_Unscoped(tbl, productType, fault) ==
    IF fault THEN [total |-> 0, err |-> ErrConn]
    ELSE [total |-> Cardinality({i \in DOMAIN tbl :
                        productType # "" => tbl[i].productType = productType}),
          err |-> NoErr]

\* List, first statement: query.Count(&total)
ProductRepoCount(tbl, productType, fault) ==
    IF fault THEN [total |-> 0, err |-> ErrConn]
    ELSE [total |-> Cardinality(ProductMatching(tbl, productType)), err |-> NoErr]

\* List, second statement: query.Offset(..).Limit(..).Find(&products), with
\* the plans of the rows found preloaded (they are not part of the response)
ProductRepoFind(tbl, productType, page, pageSize, order, fault) ==
    IF fault THEN [ent |-> <<>>, err |-> ErrConn]
    ELSE LET rows == RowsOf(tbl, order)
         IN [ent |-> IF page > 0 /\ pageSize > 0
                       THEN Slice(rows, (page - 1) * pageSize, pageSize)
                       ELSE rows,
             err |-> NoErr]

\* ------------------------------------------------- subscriptionRepository
SubscriptionRepoCreate(tbl, plan, fresh, fault) ==
    IF fault THEN [err |-> ErrConn, tbl |-> tbl, ent |-> plan]
    ELSE LET row == SubscriptionPlanBeforeCreate(plan, fresh)
         IN [err |-> NoErr, tbl |-> (row.id :> row) @@ tbl, ent |-> row]

\* mutant: reads through the tombstone (Unscoped)
SubscriptionRepoGetByID_Unscoped(tbl, id, fault) ==
    IF fault THEN [ent |-> <<>>, err |-> ErrConn]
    ELSE IF id \notin DOMAIN tbl
      THEN [ent |-> <<>>, err |-> RawErr("subscription plan not found")]
    ELSE [ent |-> <<tbl[id]>>, err |-> NoErr]

SubscriptionRepoGetByID(tbl, id, fault) ==
    IF fault THEN [ent |-> <<>>, err |-> ErrConn]
    ELSE IF ~Live(tbl, id)
      THEN [ent |-> <<>>, err |-> RawErr("subscription plan not found")]
    ELSE [ent |-> <<tbl[id]>>, err |-> NoErr]

SubscriptionRepoUpdate(tbl, plan, fault) ==
    IF fault THEN [err |-> ErrConn, tbl |-> tbl]
    ELSE IF ~Live(tbl, plan.id)
      THEN [err |-> RawErr("subscription plan not found"), tbl |-> tbl]
    ELSE LET old == tbl[plan.id]
             row == [old EXCEPT
                       !.productId = NonZeroNum(plan.productId, old.productId),
                       !.planName = NonZeroStr(plan.planName, old.planName),
                       !.duration = NonZeroNum(plan.duration, old.duration),
                       !.price = NonZeroNum(plan.price, old.price)]
         IN [err |-> NoErr, tbl |-> [tbl EXCEPT ![plan.id] = row]]

SubscriptionRepoDelete(tbl, id, fault) ==
    IF fault THEN [err |-> ErrConn, tbl |-> tbl]
    ELSE IF ~Live(tbl, id)
      THEN [err |-> RawErr("subscription plan not found"), tbl |-> tbl]
    ELSE [err |-> NoErr, tbl |-> [tbl EXCEPT ![id].deleted = TRUE]]

\* the rows ListByProductID selects
PlansOfProduct(tbl, productId) ==
    {i \in DOMAIN tbl : ~tbl[i].deleted /\ tbl[i].productId = productId}

SubscriptionRepoListByProductID(tbl, productId, order, fault) ==
    IF fault THEN [ent |-> <<>>, err |-> ErrConn]
    ELSE [ent |-> RowsOf(tbl, order), err |-> NoErr]

\* --------------------------------------------------------------- handlers
\* mapServiceError
MapServiceError(err) ==
    IF err = NoErr THEN "OK"
    ELSE IF IsValidationError(err) THEN "InvalidArgument"
    ELSE IF IsNotFoundError(err) THEN "NotFound"
    ELSE IF IsDatabaseError(err) THEN "Internal"
    ELSE "Internal"

\* ProductHandler: every RPC returns mapServiceError(err)
ProductHandlerStatus(op, err) == MapServiceError(err)

\* SubscriptionHandler: every RPC returns status.Errorf with a code of its own
SubscriptionHandlerStatus(op, err) ==
    IF err = NoErr THEN "OK"
    ELSE IF op = "GetSubscriptionPlan" THEN "NotFound"
    ELSE "Internal"


\* ---------------------------------------------------------- request slots
ProductOps ==
    {"CreateProduct", "GetProduct", "UpdateProduct", "DeleteProduct", "ListProducts"}

SubscriptionOps ==
    {"CreateSubscriptionPlan", "GetSubscriptionPlan", "UpdateSubscriptionPlan",
     "DeleteSubscriptionPlan", "ListSubscriptionPlans"}

IdleReq ==
    [op |-> "idle", pc |-> "idle", id |-> EmptyStr, pid |-> EmptyStr, in |-> NoInput,
     uid |-> NilUUID, upid |-> NilUUID,
     err |-> NoErr, ent |-> <<>>, total |-> 0, status |-> ""]

IdleHist ==
    [startGone |-> FALSE,   \* the entity named by id was tombstoned (Delete: not live) at the call
     startDead |-> FALSE,   \* the product named by pid was tombstoned at the call
     checked |-> FALSE,     \* the existence read ran and the entity was live
     resolved |-> FALSE,    \* the product-resolution read ran
     seenLive |-> FALSE,    \* ... and the product was live at that moment
     atWrite |-> FALSE,     \* the write to storage was issued
     goneAtWrite |-> FALSE, \* ... and the entity was not live at that moment
     deadAtWrite |-> FALSE, \* ... and the plan's product was not live at that moment
     wrote |-> FALSE,       \* a row was inserted or changed
     faulted |-> FALSE,     \* a storage call failed with a connection fault
     expect |-> {},         \* Get: the Create inputs of the id, if still pristine
     given |-> NoInput,     \* ListProducts: the arguments as the caller gave them
     calls |-> <<>>,        \* the storage calls made so far: <<repository, method>>
     cancelled |-> FALSE]   \* the context of the request has been cancelled

HandlerStatus(op, err) ==
    IF op \in ProductOps THEN ProductHandlerStatus(op, err)
    ELSE SubscriptionHandlerStatus(op, err)

\* the service returns (ent, total, err) and the handler turns err into a status
Return(r, err, ent, total) ==
    [r EXCEPT !.pc = "done", !.err = err, !.ent = ent, !.total = total,
              !.status = HandlerStatus(r.op, err)]

Call(op, pc, id, pid, in, uid, upid) ==
    [IdleReq EXCEPT !.op = op, !.pc = pc, !.id = id, !.pid = pid, !.in = in,
                    !.uid = uid, !.upid = upid]

At(p, op, pc) == req[p].op = op /\ req[p].pc = pc

Tombstoned(tbl, id) == id \in DOMAIN tbl /\ tbl[id].deleted

\* uuid.New() never repeats: requests that will insert reserve their identifier
Inserting ==
    {q \in Procs : /\ req[q].op \in {"CreateProduct", "CreateSubscriptionPlan"}
                   /\ req[q].pc \notin {"idle", "done"}}

CanInsert == nextId + Cardinality(Inserting) <= MaxId

Init ==
    /\ products = <<>>
    /\ plans = <<>>
    /\ nextId = 1
    /\ req = [p \in Procs |-> IdleReq]
    /\ hist = [p \in Procs |-> IdleHist]
    /\ pristine = <<>>

Forget(f, id) == [i \in DOMAIN f \ {id} |-> f[i]]

\* ---------------------------------------------------------- productService
\* variant that stores the input without validating it
CreateProduct_NoValidation(p, in) ==
    /\ req[p].op = "idle"
    /\ CanInsert
    /\ req' = [req EXCEPT ![p] =
           Call("CreateProduct", "create", EmptyStr, EmptyStr, in, NilUUID, NilUUID)]
    /\ UNCHANGED <<products, plans, nextId, hist, pristine>>

CreateProduct(p, in) ==
    /\ req[p].op = "idle"
    /\ LET r == Call("CreateProduct", "create", EmptyStr, EmptyStr, in, NilUUID, NilUUID)
           e == ValidateProductInput(in.name, in.price, in.productType)
       IN IF e # NoErr
            THEN req' = [req EXCEPT ![p] = Return(r, e, <<>>, 0)]
            ELSE CanInsert /\ req' = [req EXCEPT ![p] = r]
    /\ UNCHANGED <<products, plans, nextId, hist, pristine>>

CreateProductStore(p) ==
    /\ At(p, "CreateProduct", "create")
    /\ \E fault \in BOOLEAN :
         LET in == req[p].in
             product == [id |-> NilUUID, name |-> in.name, description |-> in.description,
                         price |-> in.price, productType |-> in.productType,
                         deleted |-> FALSE]
             c == ProductRepoCreate(products, product, nextId, fault)
         IN IF c.err # NoErr
              THEN /\ req' = [req EXCEPT ![p] =
                         Return(@, NewDatabaseError("create product", c.err), <<>>, 0)]
                   /\ hist' = [hist EXCEPT ![p].calls = Append(@, <<"product", "Create">>),
                                           ![p].atWrite = TRUE, ![p].faulted = TRUE]
                   /\ UNCHANGED <<products, nextId, pristine>>
              ELSE /\ req' = [req EXCEPT ![p] = Return(@, NoErr, <<c.ent>>, 0)]
                   /\ hist' = [hist EXCEPT ![p].calls = Append(@, <<"product", "Create">>),
                                           ![p].atWrite = TRUE, ![p].wrote = TRUE]
                   /\ products' = c.tbl
                   /\ nextId' = nextId + 1
                   /\ pristine' = (c.ent.id :> in) @@ pristine
    /\ UNCHANGED plans

\* variant that goes on to the read although parsing failed
GetProduct_NoEarlyExit(p, id) ==
    /\ req[p].op = "idle"
    /\ LET parsed == ParseProductID(id)
       IN /\ req' = [req EXCEPT ![p] =
                 Call("GetProduct", "get", id, EmptyStr, NoInput, parsed.uuid, NilUUID)]
          /\ hist' = [hist EXCEPT ![p].startGone = Tombstoned(products, parsed.uuid)]
    /\ UNCHANGED <<products, plans, nextId, pristine>>

GetProduct(p, id) ==
    /\ req[p].op = "idle"
    /\ LET parsed == ParseProductID(id)
           r == Call("GetProduct", "get", id, EmptyStr, NoInput, parsed.uuid, NilUUID)
       IN /\ req' = [req EXCEPT ![p] =
                 IF parsed.err # NoErr THEN Return(r, parsed.err, <<>>, 0) ELSE r]
          /\ hist' = [hist EXCEPT ![p].startGone = Tombstoned(products, parsed.uuid)]
    /\ UNCHANGED <<products, plans, nextId, pristine>>

GetProductRead(p) ==
    /\ At(p, "GetProduct", "get")
    /\ \E fault \in BOOLEAN :
         LET g == ProductRepoGetByID(products, req[p].uid, fault)
         IN /\ req' = [req EXCEPT ![p] =
                   IF g.err # NoErr
                     THEN Return(@, NewNotFoundError("Product", req[p].id), <<>>, 0)
                     ELSE Return(@, NoErr, g.ent, 0)]
            /\ hist' = [hist EXCEPT ![p].calls = Append(@, <<"product", "GetByID">>),
                                    ![p].faulted = fault,
                   ![p].expect = IF req[p].uid \in DOMAIN pristine \cap DOMAIN products
                                   THEN {pristine[req[p].uid]} ELSE {}]
    /\ UNCHANGED <<products, plans, nextId, pristine>>

UpdateProduct(p, id, in) ==
    /\ req[p].op = "idle"
    /\ LET parsed == ParseProductID(id)
           r == Call("UpdateProduct", "check", id, EmptyStr, in, parsed.uuid, NilUUID)
       IN req' = [req EXCEPT ![p] =
              IF parsed.err # NoErr THEN Return(r, parsed.err, <<>>, 0) ELSE r]
    /\ UNCHANGED <<products, plans, nextId, hist, pristine>>

\* variant that validates the fields before it reports a missing product
UpdateProductCheck_ValidateFirst(p) ==
    /\ At(p, "UpdateProduct", "check")
    /\ \E fault \in BOOLEAN :
         LET g == ProductRepoGetByID(products, req[p].uid, fault)
             in == req[p].in
             e == ValidateProductInput(in.name, in.price, in.productType)
         IN /\ req' = [req EXCEPT ![p] =
                   IF e # NoErr THEN Return(@, e, <<>>, 0)
                   ELSE IF g.err # NoErr
                     THEN Return(@, NewNotFoundError("Product", req[p].id), <<>>, 0)
                   ELSE [@ EXCEPT !.pc = "write"]]
            /\ hist' = [hist EXCEPT ![p].calls = Append(@, <<"product", "GetByID">>),
                                    ![p].faulted = fault,
                                    ![p].checked = g.err = NoErr]
    /\ UNCHANGED <<products, plans, nextId, pristine>>

UpdateProductCheck(p) ==
    /\ At(p, "UpdateProduct", "check")
    /\ \E fault \in BOOLEAN :
         LET g == ProductRepoGetByID(products, req[p].uid, fault)
             in == req[p].in
             e == ValidateProductInput(in.name, in.price, in.productType)
         IN /\ req' = [req EXCEPT ![p] =
                   IF g.err # NoErr
                     THEN Return(@, NewNotFoundError("Product", req[p].id), <<>>, 0)
                   ELSE IF e # NoErr THEN Return(@, e, <<>>, 0)
                   ELSE [@ EXCEPT !.pc = "write"]]
            /\ hist' = [hist EXCEPT ![p].calls = Append(@, <<"product", "GetByID">>),
                                    ![p].faulted = fault,
                                    ![p].checked = g.err = NoErr]
    /\ UNCHANGED <<products, plans, nextId, pristine>>

UpdateProductWrite(p) ==
    /\ At(p, "UpdateProduct", "write")
    /\ \E fault \in BOOLEAN :
         LET in == req[p].in
             product == [id |-> req[p].uid, name |-> in.name,
                         description |-> in.description, price |-> in.price,
                         productType |-> in.productType]
             u == ProductRepoUpdate(products, product, fault)
         IN /\ req' = [req EXCEPT ![p] =
                   IF u.err # NoErr
                     THEN Return(@, NewDatabaseError("update product", u.err), <<>>, 0)
                     ELSE [@ EXCEPT !.pc = "reread"]]
            /\ hist' = [hist EXCEPT ![p].calls = Append(@, <<"product", "Update">>),
                                    ![p].atWrite = TRUE,
                                    ![p].faulted = @ \/ fault,
                                    ![p].goneAtWrite = ~Live(products, req[p].uid),
                                    ![p].wrote = u.err = NoErr]
            /\ products' = u.tbl
            /\ pristine' = IF u.err = NoErr THEN Forget(pristine, req[p].uid)
                           ELSE pristine
    /\ UNCHANGED <<plans, nextId>>

UpdateProductReread(p) ==
    /\ At(p, "UpdateProduct", "reread")
    /\ \E fault \in BOOLEAN :
         LET g == ProductRepoGetByID(products, req[p].uid, fault)
         IN /\ req' = [req EXCEPT ![p] = Return(@, g.err, g.ent, 0)]
            /\ hist' = [hist EXCEPT ![p].calls = Append(@, <<"product", "GetByID">>),
                                    ![p].faulted = @ \/ fault]
    /\ UNCHANGED <<products, plans, nextId, pristine>>

DeleteProduct(p, id) ==
    /\ req[p].op = "idle"
    /\ LET parsed == ParseProductID(id)
           r == Call("DeleteProduct", "check", id, EmptyStr, NoInput, parsed.uuid, NilUUID)
       IN /\ req' = [req EXCEPT ![p] =
                 IF parsed.err # NoErr THEN Return(r, parsed.err, <<>>, 0) ELSE r]
          /\ hist' = [hist EXCEPT ![p].startGone = ~Live(products, parsed.uuid)]
    /\ UNCHANGED <<products, plans, nextId, pristine>>

\* variant that ignores the result of the existence read
DeleteProductCheck_Unchecked(p) ==
    /\ At(p, "DeleteProduct", "check")
    /\ \E fault \in BOOLEAN :
         LET g == ProductRepoGetByID(products, req[p].uid, fault)
         IN /\ req' = [req EXCEPT ![p].pc = "write"]
            /\ hist' = [hist EXCEPT ![p].calls = Append(@, <<"product", "GetByID">>),
                                    ![p].faulted = fault,
                                    ![p].checked = g.err = NoErr]
    /\ UNCHANGED <<products, plans, nextId, pristine>>

DeleteProductCheck(p) ==
    /\ At(p, "DeleteProduct", "check")
    /\ \E fault \in BOOLEAN :
         LET g == ProductRepoGetByID(products, req[p].uid, fault)
         IN /\ req' = [req EXCEPT ![p] =
                   IF g.err # NoErr
                     THEN Return(@, NewNotFoundError("Product", req[p].id), <<>>, 0)
                     ELSE [@ EXCEPT !.pc = "write"]]
            /\ hist' = [hist EXCEPT ![p].calls = Append(@, <<"product", "GetByID">>),
                                    ![p].faulted = fault,
                                    ![p].checked = g.err = NoErr]
    /\ UNCHANGED <<products, plans, nextId, pristine>>

DeleteProductWrite(p) ==
    /\ At(p, "DeleteProduct", "write")
    /\ \E fault \in BOOLEAN :
         LET d == ProductRepoDelete(products, req[p].uid, fault)
         IN /\ req' = [req EXCEPT ![p] =
                   IF d.err # NoErr
                     THEN Return(@, NewDatabaseError("delete product", d.err), <<>>, 0)
                     ELSE Return(@, NoErr, <<>>, 0)]
            /\ hist' = [hist EXCEPT ![p].calls = Append(@, <<"product", "Delete">>),
                                    ![p].atWrite = TRUE,
                                    ![p].faulted = @ \/ fault,
                                    ![p].goneAtWrite = ~Live(products, req[p].uid),
                                    ![p].wrote = d.err = NoErr]
            /\ products' = d.tbl
            /\ pristine' = IF d.err = NoErr THEN Forget(pristine, req[p].uid)
                           ELSE pristine
    /\ UNCHANGED <<plans, nextId>>

ListProducts(p, in) ==
    /\ req[p].op = "idle"
    /\ req' = [req EXCEPT ![p] =
           Call("ListProducts", "list", EmptyStr, EmptyStr,
                [in EXCEPT !.page = NormalizePage(in.page),
                           !.pageSize = NormalizePageSize(in.pageSize)],
                NilUUID, NilUUID)]
    /\ hist' = [hist EXCEPT ![p].given = in]
    /\ UNCHANGED <<products, plans, nextId, pristine>>

\* variant that calls storage again after a failed call
ListProductsCount_Retry(p) ==
    /\ At(p, "ListProducts", "list")
    /\ Len(hist[p].calls) < 2
    /\ \E fault \in BOOLEAN :
         LET c == ProductRepoCount(products, req[p].in.productType, fault)
         IN /\ req' = [req EXCEPT ![p] =
                   IF c.err # NoErr THEN @
                   ELSE [@ EXCEPT !.pc = "find", !.total = c.total]]
            /\ hist' = [hist EXCEPT ![p].calls = Append(@, <<"product", "List">>),
                                    ![p].faulted = fault]
    /\ UNCHANGED <<products, plans, nextId, pristine>>

\* repo.List is entered and runs its Count statement
ListProductsCount(p) ==
    /\ At(p, "ListProducts", "list")
    /\ \E fault \in BOOLEAN :
         LET c == ProductRepoCount(products, req[p].in.productType, fault)
         IN /\ req' = [req EXCEPT ![p] =
                   IF c.err # NoErr
                     THEN Return(@, NewDatabaseError("list products", c.err), <<>>, 0)
                     ELSE [@ EXCEPT !.pc = "find", !.total = c.total]]
            /\ hist' = [hist EXCEPT ![p].calls = Append(@, <<"product", "List">>),
                                    ![p].faulted = fault]
    /\ UNCHANGED <<products, plans, nextId, pristine>>

\* repo.List runs its Find statement, a separate round trip with no
\* transaction around the two, and ListProducts returns
ListProductsFind(p) ==
    /\ At(p, "ListProducts", "find")
    /\ \E fault \in BOOLEAN,
          order \in Orders(ProductMatching(products, req[p].in.productType)) :
         LET in == req[p].in
             f == ProductRepoFind(products, in.productType, in.page, in.pageSize,
                                  order, fault)
         IN /\ req' = [req EXCEPT ![p] =
                   IF f.err # NoErr
                     THEN Return(@, NewDatabaseError("list products", f.err), <<>>, 0)
                     ELSE Return(@, NoErr, f.ent, req[p].total)]
            /\ hist' = [hist EXCEPT ![p].faulted = @ \/ fault]
    /\ UNCHANGED <<products, plans, nextId, pristine>>


\* ----------------------------------------------------- subscriptionService
CreateSubscriptionPlan(p, pid, in) ==
    /\ req[p].op = "idle"
    /\ LET e == ValidateSubscriptionInput(in.planName, in.duration, in.price)
           parsed == ParseProductID(pid)
           r == Call("CreateSubscriptionPlan", "resolve", EmptyStr, pid, in,
                     NilUUID, parsed.uuid)
       IN /\ IF e # NoErr
               THEN req' = [req EXCEPT ![p] =
                        Return([r EXCEPT !.upid = NilUUID], e, <<>>, 0)]
             ELSE IF parsed.err # NoErr
               THEN req' = [req EXCEPT ![p] = Return(r, parsed.err, <<>>, 0)]
             ELSE CanInsert /\ req' = [req EXCEPT ![p] = r]
          /\ hist' = [hist EXCEPT ![p].startDead = Tombstoned(products, parsed.uuid)]
    /\ UNCHANGED <<products, plans, nextId, pristine>>

\* mutant: the result of the product lookup is ignored
CreateSubscriptionPlanResolve_Unchecked(p) ==
    /\ At(p, "CreateSubscriptionPlan", "resolve")
    /\ \E fault \in BOOLEAN :
         /\ req' = [req EXCEPT ![p].pc = "create"]
         /\ hist' = [hist EXCEPT ![p].calls = Append(@, <<"product", "GetByID">>),
                                 ![p].faulted = fault,
                                 ![p].resolved = TRUE,
                                 ![p].seenLive = Live(products, req[p].upid)]
    /\ UNCHANGED <<products, plans, nextId, pristine>>

CreateSubscriptionPlanResolve(p) ==
    /\ At(p, "CreateSubscriptionPlan", "resolve")
    /\ \E fault \in BOOLEAN :
         LET g == ProductRepoGetByID(products, req[p].upid, fault)
         IN /\ req' = [req EXCEPT ![p] =
                   IF g.err # NoErr
                     THEN Return(@, NewNotFoundError("Product", req[p].pid), <<>>, 0)
                     ELSE [@ EXCEPT !.pc = "create"]]
            /\ hist' = [hist EXCEPT ![p].calls = Append(@, <<"product", "GetByID">>),
                                    ![p].faulted = fault,
                                    ![p].resolved = TRUE,
                                    ![p].seenLive = Live(products, req[p].upid)]
    /\ UNCHANGED <<products, plans, nextId, pristine>>

CreateSubscriptionPlanStore(p) ==
    /\ At(p, "CreateSubscriptionPlan", "create")
    /\ \E fault \in BOOLEAN :
         LET in == req[p].in
             plan == [id |-> NilUUID, productId |-> req[p].upid, planName |-> in.planName,
                      duration |-> in.duration, price |-> in.price, deleted |-> FALSE]
             c == SubscriptionRepoCreate(plans, plan, nextId, fault)
         IN IF c.err # NoErr
              THEN /\ req' = [req EXCEPT ![p] =
                         Return(@, NewDatabaseError("create subscription plan", c.err),
                                <<>>, 0)]
                   /\ hist' = [hist EXCEPT ![p].calls = Append(@, <<"subscription", "Create">>),
                                           ![p].atWrite = TRUE, ![p].faulted = TRUE]
                   /\ UNCHANGED <<plans, nextId, pristine>>
              ELSE /\ req' = [req EXCEPT ![p] = Return(@, NoErr, <<c.ent>>, 0)]
                   /\ hist' = [hist EXCEPT ![p].calls = Append(@, <<"subscription", "Create">>),
                                           ![p].atWrite = TRUE, ![p].wrote = TRUE,
                          ![p].deadAtWrite = ~Live(products, req[p].upid)]
                   /\ plans' = c.tbl
                   /\ nextId' = nextId + 1
                   /\ pristine' = (c.ent.id :> [productId |-> req[p].upid,
                                                planName |-> in.planName,
                                                duration |-> in.duration,
                                                price |-> in.price]) @@ pristine
    /\ UNCHANGED products

GetSubscriptionPlan(p, id) ==
    /\ req[p].op = "idle"
    /\ LET parsed == ParsePlanID(id)
           r == Call("GetSubscriptionPlan", "get", id, EmptyStr, NoInput,
                     parsed.uuid, NilUUID)
       IN /\ req' = [req EXCEPT ![p] =
                 IF parsed.err # NoErr THEN Return(r, parsed.err, <<>>, 0) ELSE r]
          /\ hist' = [hist EXCEPT ![p].startGone = Tombstoned(plans, parsed.uuid)]
    /\ UNCHANGED <<products, plans, nextId, pristine>>

GetSubscriptionPlanRead(p) ==
    /\ At(p, "GetSubscriptionPlan", "get")
    /\ \E fault \in BOOLEAN :
         LET g == SubscriptionRepoGetByID(plans, req[p].uid, fault)
         IN /\ req' = [req EXCEPT ![p] =
                   IF g.err # NoErr
                     THEN Return(@, NewNotFoundError("SubscriptionPlan", req[p].id),
                                 <<>>, 0)
                     ELSE Return(@, NoErr, g.ent, 0)]
            /\ hist' = [hist EXCEPT ![p].calls = Append(@, <<"subscription", "GetByID">>),
                                    ![p].faulted = fault,
                   ![p].expect = IF req[p].uid \in DOMAIN pristine \cap DOMAIN plans
                                   THEN {pristine[req[p].uid]} ELSE {}]
    /\ UNCHANGED <<products, plans, nextId, pristine>>

UpdateSubscriptionPlan(p, id, pid, in) ==
    /\ req[p].op = "idle"
    /\ LET parsed == ParsePlanID(id)
           r == Call("UpdateSubscriptionPlan", "check", id, pid, in, parsed.uuid, NilUUID)
       IN /\ req' = [req EXCEPT ![p] =
                 IF parsed.err # NoErr THEN Return(r, parsed.err, <<>>, 0) ELSE r]
          /\ hist' = [hist EXCEPT
                 ![p].startDead = Tombstoned(products, ParseProductID(pid).uuid)]
    /\ UNCHANGED <<products, plans, nextId, pristine>>

\* variant that goes to the write without resolving the product
UpdateSubscriptionPlanCheck_NoResolve(p) ==
    /\ At(p, "UpdateSubscriptionPlan", "check")
    /\ \E fault \in BOOLEAN :
         LET g == SubscriptionRepoGetByID(plans, req[p].uid, fault)
             in == req[p].in
             e == ValidateSubscriptionInput(in.planName, in.duration, in.price)
             parsed == ParseProductID(req[p].pid)
         IN /\ req' = [req EXCEPT ![p] =
                   IF g.err # NoErr
                     THEN Return(@, NewNotFoundError("SubscriptionPlan", req[p].id),
                                 <<>>, 0)
                   ELSE IF e # NoErr THEN Return(@, e, <<>>, 0)
                   ELSE IF parsed.err # NoErr THEN Return(@, parsed.err, <<>>, 0)
                   ELSE [@ EXCEPT !.pc = "write", !.upid = parsed.uuid]]
            /\ hist' = [hist EXCEPT ![p].calls = Append(@, <<"subscription", "GetByID">>),
                                    ![p].faulted = fault,
                                    ![p].checked = g.err = NoErr]
    /\ UNCHANGED <<products, plans, nextId, pristine>>

UpdateSubscriptionPlanCheck(p) ==
    /\ At(p, "UpdateSubscriptionPlan", "check")
    /\ \E fault \in BOOLEAN :
         LET g == SubscriptionRepoGetByID(plans, req[p].uid, fault)
             in == req[p].in
             e == ValidateSubscriptionInput(in.planName, in.duration, in.price)
             parsed == ParseProductID(req[p].pid)
         IN /\ req' = [req EXCEPT ![p] =
                   IF g.err # NoErr
                     THEN Return(@, NewNotFoundError("SubscriptionPlan", req[p].id),
                                 <<>>, 0)
                   ELSE IF e # NoErr THEN Return(@, e, <<>>, 0)
                   ELSE IF parsed.err # NoErr THEN Return(@, parsed.err, <<>>, 0)
                   ELSE [@ EXCEPT !.pc = "resolve", !.upid = parsed.uuid]]
            /\ hist' = [hist EXCEPT ![p].calls = Append(@, <<"subscription", "GetByID">>),
                                    ![p].faulted = fault,
                                    ![p].checked = g.err = NoErr]
    /\ UNCHANGED <<products, plans, nextId, pristine>>

\* mutant: the result of the product lookup is ignored
UpdateSubscriptionPlanResolve_Unchecked(p) ==
    /\ At(p, "UpdateSubscriptionPlan", "resolve")
    /\ \E fault \in BOOLEAN :
         /\ req' = [req EXCEPT ![p].pc = "write"]
         /\ hist' = [hist EXCEPT ![p].calls = Append(@, <<"product", "GetByID">>),
                                 ![p].faulted = @ \/ fault,
                                 ![p].resolved = TRUE,
                                 ![p].seenLive = Live(products, req[p].upid)]
    /\ UNCHANGED <<products, plans, nextId, pristine>>

UpdateSubscriptionPlanResolve(p) ==
    /\ At(p, "UpdateSubscriptionPlan", "resolve")
    /\ \E fault \in BOOLEAN :
         LET g == ProductRepoGetByID(products, req[p].upid, fault)
         IN /\ req' = [req EXCEPT ![p] =
                   IF g.err # NoErr
                     THEN Return(@, NewNotFoundError("Product", req[p].pid), <<>>, 0)
                     ELSE [@ EXCEPT !.pc = "write"]]
            /\ hist' = [hist EXCEPT ![p].calls = Append(@, <<"product", "GetByID">>),
                                    ![p].faulted = @ \/ fault,
                                    ![p].resolved = TRUE,
                                    ![p].seenLive = Live(products, req[p].upid)]
    /\ UNCHANGED <<products, plans, nextId, pristine>>

UpdateSubscriptionPlanWrite(p) ==
    /\ At(p, "UpdateSubscriptionPlan", "write")
    /\ \E fault \in BOOLEAN :
         LET in == req[p].in
             plan == [id |-> req[p].uid, productId |-> req[p].upid,
                      planName |-> in.planName, duration |-> in.duration,
                      price |-> in.price]
             u == SubscriptionRepoUpdate(plans, plan, fault)
         IN /\ req' = [req EXCEPT ![p] =
                   IF u.err # NoErr
                     THEN Return(@, NewDatabaseError("update subscription plan", u.err),
                                 <<>>, 0)
                     ELSE [@ EXCEPT !.pc = "reread"]]
            /\ hist' = [hist EXCEPT ![p].calls = Append(@, <<"subscription", "Update">>),
                                    ![p].atWrite = TRUE,
                   ![p].faulted = @ \/ fault,
                   ![p].goneAtWrite = ~Live(plans, req[p].uid),
                   ![p].wrote = u.err = NoErr,
                   ![p].deadAtWrite = u.err = NoErr /\ ~Live(products, req[p].upid)]
            /\ plans' = u.tbl
            /\ pristine' = IF u.err = NoErr THEN Forget(pristine, req[p].uid)
                           ELSE pristine
    /\ UNCHANGED <<products, nextId>>

UpdateSubscriptionPlanReread(p) ==
    /\ At(p, "UpdateSubscriptionPlan", "reread")
    /\ \E fault \in BOOLEAN :
         LET g == SubscriptionRepoGetByID(plans, req[p].uid, fault)
         IN /\ req' = [req EXCEPT ![p] = Return(@, g.err, g.ent, 0)]
            /\ hist' = [hist EXCEPT ![p].calls = Append(@, <<"subscription", "GetByID">>),
                                    ![p].faulted = @ \/ fault]
    /\ UNCHANGED <<products, plans, nextId, pristine>>

DeleteSubscriptionPlan(p, id) ==
    /\ req[p].op = "idle"
    /\ LET parsed == ParsePlanID(id)
           r == Call("DeleteSubscriptionPlan", "check", id, EmptyStr, NoInput,
                     parsed.uuid, NilUUID)
       IN /\ req' = [req EXCEPT ![p] =
                 IF parsed.err # NoErr THEN Return(r, parsed.err, <<>>, 0) ELSE r]
          /\ hist' = [hist EXCEPT ![p].startGone = ~Live(plans, parsed.uuid)]
    /\ UNCHANGED <<products, plans, nextId, pristine>>

\* variant that ignores the result of the existence read
DeleteSubscriptionPlanCheck_Unchecked(p) ==
    /\ At(p, "DeleteSubscriptionPlan", "check")
    /\ \E fault \in BOOLEAN :
         LET g == SubscriptionRepoGetByID(plans, req[p].uid, fault)
         IN /\ req' = [req EXCEPT ![p].pc = "write"]
            /\ hist' = [hist EXCEPT ![p].calls = Append(@, <<"subscription", "GetByID">>),
                                    ![p].faulted = fault,
                                    ![p].checked = g.err = NoErr]
    /\ UNCHANGED <<products, plans, nextId, pristine>>

DeleteSubscriptionPlanCheck(p) ==
    /\ At(p, "DeleteSubscriptionPlan", "check")
    /\ \E fault \in BOOLEAN :
         LET g == SubscriptionRepoGetByID(plans, req[p].uid, fault)
         IN /\ req' = [req EXCEPT ![p] =
                   IF g.err # NoErr
                     THEN Return(@, NewNotFoundError("SubscriptionPlan", req[p].id),
                                 <<>>, 0)
                     ELSE [@ EXCEPT !.pc = "write"]]
            /\ hist' = [hist EXCEPT ![p].calls = Append(@, <<"subscription", "GetByID">>),
                                    ![p].faulted = fault,
                                    ![p].checked = g.err = NoErr]
    /\ UNCHANGED <<products, plans, nextId, pristine>>

DeleteSubscriptionPlanWrite(p) ==
    /\ At(p, "DeleteSubscriptionPlan", "write")
    /\ \E fault \in BOOLEAN :
         LET d == SubscriptionRepoDelete(plans, req[p].uid, fault)
         IN /\ req' = [req EXCEPT ![p] =
                   IF d.err # NoErr
                     THEN Return(@, NewDatabaseError("delete subscription plan", d.err),
                                 <<>>, 0)
                     ELSE Return(@, NoErr, <<>>, 0)]
            /\ hist' = [hist EXCEPT ![p].calls = Append(@, <<"subscription", "Delete">>),
                                    ![p].atWrite = TRUE,
                                    ![p].faulted = @ \/ fault,
                                    ![p].goneAtWrite = ~Live(plans, req[p].uid),
                                    ![p].wrote = d.err = NoErr]
            /\ plans' = d.tbl
            /\ pristine' = IF d.err = NoErr THEN Forget(pristine, req[p].uid)
                           ELSE pristine
    /\ UNCHANGED <<products, nextId>>

ListSubscriptionPlans(p, pid) ==
    /\ req[p].op = "idle"
    /\ LET parsed == ParseProductID(pid)
           r == Call("ListSubscriptionPlans", "list", EmptyStr, pid, NoInput,
                     NilUUID, parsed.uuid)
       IN /\ req' = [req EXCEPT ![p] =
                 IF parsed.err # NoErr THEN Return(r, parsed.err, <<>>, 0) ELSE r]
          /\ hist' = [hist EXCEPT ![p].startDead = Tombstoned(products, parsed.uuid)]
    /\ UNCHANGED <<products, plans, nextId, pristine>>

ListSubscriptionPlansRead(p) ==
    /\ At(p, "ListSubscriptionPlans", "list")
    /\ \E fault \in BOOLEAN, order \in Orders(PlansOfProduct(plans, req[p].upid)) :
         LET l == SubscriptionRepoListByProductID(plans, req[p].upid, order, fault)
         IN /\ req' = [req EXCEPT ![p] =
                   IF l.err # NoErr
                     THEN Return(@, NewDatabaseError("list subscription plans", l.err),
                                 <<>>, 0)
                     ELSE Return(@, NoErr, l.ent, 0)]
            /\ hist' = [hist EXCEPT ![p].calls = Append(@, <<"subscription", "ListByProductID">>),
                                    ![p].faulted = fault]
    /\ UNCHANGED <<products, plans, nextId, pristine>>

\* the response leaves; the slot is free for the next request
Respond(p) ==
    /\ req[p].pc = "done"
    /\ req' = [req EXCEPT ![p] = IdleReq]
    /\ hist' = [hist EXCEPT ![p] = IdleHist]
    /\ UNCHANGED <<products, plans, nextId, pristine>>

\* the caller cancels the context of a request in progress (or its deadline
\* passes); no handler, service or repository reads the context
Cancel(p) ==
    /\ req[p].pc \notin {"idle", "done"}
    /\ ~hist[p].cancelled
    /\ hist' = [hist EXCEPT ![p].cancelled = TRUE]
    /\ UNCHANGED <<products, plans, nextId, req, pristine>>

\* One request at a time: every RPC, every input.
Next ==
    LET p == "r1" IN
        \/ \E in \in ProductInputs : CreateProduct(p, in)
        \/ CreateProductStore(p)
        \/ \E id \in IdStrings : GetProduct(p, id)
        \/ GetProductRead(p)
        \/ \E id \in IdStrings, in \in ProductInputs : UpdateProduct(p, id, in)
        \/ UpdateProductCheck(p)
        \/ UpdateProductWrite(p)
        \/ UpdateProductReread(p)
        \/ \E id \in IdStrings : DeleteProduct(p, id)
        \/ DeleteProductCheck(p)
        \/ DeleteProductWrite(p)
        \/ \E in \in ListInputs : ListProducts(p, in)
        \/ ListProductsCount(p)
        \/ ListProductsFind(p)
        \/ \E pid \in IdStrings, in \in PlanInputs : CreateSubscriptionPlan(p, pid, in)
        \/ CreateSubscriptionPlanResolve(p)
        \/ CreateSubscriptionPlanStore(p)
        \/ \E id \in IdStrings : GetSubscriptionPlan(p, id)
        \/ GetSubscriptionPlanRead(p)
        \/ \E id \in IdStrings, pid \in IdStrings, in \in PlanInputs :
               UpdateSubscriptionPlan(p, id, pid, in)
        \/ UpdateSubscriptionPlanCheck(p)
        \/ UpdateSubscriptionPlanResolve(p)
        \/ UpdateSubscriptionPlanWrite(p)
        \/ UpdateSubscriptionPlanReread(p)
        \/ \E id \in IdStrings : DeleteSubscriptionPlan(p, id)
        \/ DeleteSubscriptionPlanCheck(p)
        \/ DeleteSubscriptionPlanWrite(p)
        \/ \E pid \in IdStrings : ListSubscriptionPlans(p, pid)
        \/ ListSubscriptionPlansRead(p)
        \/ Respond(p)

Spec == Init /\ [][Next]_vars

\* the list requests that overlap a delete: a whole listing and a second page
RaceListInputs ==
    {[productType |-> "", page |-> 1, pageSize |-> 10],
     [productType |-> "digital", page |-> 2, pageSize |-> 1]}

\* Two requests overlap: "r1" is a write or a ListProducts request, "r2" a
\* Delete request that runs between the storage calls of "r1".
RaceIds == {UUIDString(u) : u \in 1..MaxId}

NextRace ==
    \/ LET p == "r1" IN
        \/ CreateProduct(p, ValidProduct1)
        \/ CreateProductStore(p)
        \/ \E id \in RaceIds : UpdateProduct(p, id, ValidProduct2)
        \/ UpdateProductCheck(p)
        \/ UpdateProductWrite(p)
        \/ UpdateProductReread(p)
        \/ \E id \in RaceIds : DeleteProduct(p, id)
        \/ DeleteProductCheck(p)
        \/ DeleteProductWrite(p)
        \/ \E pid \in RaceIds : CreateSubscriptionPlan(p, pid, ValidPlan1)
        \/ CreateSubscriptionPlanResolve(p)
        \/ CreateSubscriptionPlanStore(p)
        \/ \E id \in RaceIds, pid \in RaceIds : UpdateSubscriptionPlan(p, id, pid, ValidPlan2)
        \/ UpdateSubscriptionPlanCheck(p)
        \/ UpdateSubscriptionPlanResolve(p)
        \/ UpdateSubscriptionPlanWrite(p)
        \/ UpdateSubscriptionPlanReread(p)
        \/ \E id \in RaceIds : DeleteSubscriptionPlan(p, id)
        \/ DeleteSubscriptionPlanCheck(p)
        \/ DeleteSubscriptionPlanWrite(p)
        \/ \E in \in RaceListInputs : ListProducts(p, in)
        \/ ListProductsCount(p)
        \/ ListProductsFind(p)
        \/ Respond(p)
    \/ LET q == "r2" IN
        \/ \E id \in RaceIds : DeleteProduct(q, id)
        \/ DeleteProductCheck(q)
        \/ DeleteProductWrite(q)
        \/ \E id \in RaceIds : DeleteSubscriptionPlan(q, id)
        \/ DeleteSubscriptionPlanCheck(q)
        \/ DeleteSubscriptionPlanWrite(q)
        \/ Respond(q)

SpecRace == Init /\ [][NextRace]_vars

\* One product request at a time, which its caller may cancel at any moment.
NextCancel ==
    LET p == "r1" IN
        \/ \E in \in ProductInputs : CreateProduct(p, in)
        \/ CreateProductStore(p)
        \/ \E id \in IdStrings : GetProduct(p, id)
        \/ GetProductRead(p)
        \/ \E id \in IdStrings, in \in ProductInputs : UpdateProduct(p, id, in)
        \/ UpdateProductCheck(p)
        \/ UpdateProductWrite(p)
        \/ UpdateProductReread(p)
        \/ \E id \in IdStrings : DeleteProduct(p, id)
        \/ DeleteProductCheck(p)
        \/ DeleteProductWrite(p)
        \/ Cancel(p)
        \/ Respond(p)

SpecCancel == Init /\ [][NextCancel]_vars

TypeOK ==
    /\ nextId \in 1..(MaxId + 1)
    /\ DOMAIN products \subseteq 1..MaxId
    /\ DOMAIN plans \subseteq 1..MaxId
    /\ \A p \in Procs : req[p].op \in ProductOps \cup SubscriptionOps \cup {"idle"}


\* ================================================================ claims
Done(p) == req[p].pc = "done"

Failed(p) == Done(p) /\ req[p].err # NoErr

\* C1: for every RPC of both handlers, the status of a failed request is
\* the one the conversion table (mapServiceError) gives for the kind of the
\* service error, whichever RPC returned it.
C1_StatusByKindAlone ==
    \A p \in Procs : Failed(p) => req[p].status = MapServiceError(req[p].err)

\* C2: once a product is tombstoned, ListByProductID of it is empty and
\* every plan that belongs to it is not found any more.
C2_CascadeDelete ==
    \A P \in DOMAIN products :
        products[P].deleted =>
            /\ \A order \in Orders(PlansOfProduct(plans, P)) :
                   SubscriptionRepoListByProductID(plans, P, order, FALSE).ent = <<>>
            /\ \A s \in DOMAIN plans :
                   plans[s].productId = P =>
                       SubscriptionRepoGetByID(plans, s, FALSE).err # NoErr

\* C3: CreateSubscriptionPlan with valid fields and a well-formed productId
\* that matched no live product when it was resolved returns
\* NotFoundError("Product", productId), not a DatabaseError, and the write to
\* plan storage is never issued.
C3_CreatePlanUnknownProduct ==
    \A p \in Procs :
        ( /\ Done(p)
          /\ req[p].op = "CreateSubscriptionPlan"
          /\ ValidateSubscriptionInput(req[p].in.planName, req[p].in.duration,
                                       req[p].in.price) = NoErr
          /\ ParseProductID(req[p].pid).err = NoErr
          /\ ~hist[p].seenLive )
        => /\ hist[p].resolved
           /\ req[p].err = NewNotFoundError("Product", req[p].pid)
           /\ ~IsDatabaseError(req[p].err)
           /\ req[p].ent = <<>>
           /\ ~hist[p].atWrite
           /\ ~hist[p].wrote

C3_Witness ==
    \E p \in Procs :
        /\ Done(p)
        /\ req[p].op = "CreateSubscriptionPlan"
        /\ hist[p].resolved
        /\ ~hist[p].seenLive
        /\ ~hist[p].faulted
        /\ req[p].upid \notin DOMAIN products
        /\ req[p].err = NewNotFoundError("Product", req[p].pid)

PlanWriteOps == {"CreateSubscriptionPlan", "UpdateSubscriptionPlan"}

\* C4 (as claimed): every CreateSubscriptionPlan or UpdateSubscriptionPlan
\* called with the id of an already tombstoned product returns
\* NotFoundError("Product", id) and writes nothing.
C4_Original ==
    \A p \in Procs :
        (Done(p) /\ req[p].op \in PlanWriteOps /\ hist[p].startDead)
        => /\ req[p].err = NewNotFoundError("Product", req[p].pid)
           /\ ~hist[p].wrote

\* the checks the service makes before it resolves the product
PassesEarlierChecks(p) ==
    /\ ValidateSubscriptionInput(req[p].in.planName, req[p].in.duration,
                                 req[p].in.price) = NoErr
    /\ req[p].op = "UpdateSubscriptionPlan" => hist[p].checked

\* C4 (amended): a CreateSubscriptionPlan or UpdateSubscriptionPlan called
\* with the id of an already tombstoned product fails and never issues a
\* write; when it passes the checks made before the product is resolved
\* (field validation, and for Update the read of the plan) the error is
\* NotFoundError("Product", productId).
C4_TombstonedProductRejected ==
    \A p \in Procs :
        (Done(p) /\ req[p].op \in PlanWriteOps /\ hist[p].startDead)
        => /\ req[p].err # NoErr
           /\ ~hist[p].atWrite
           /\ ~hist[p].wrote
           /\ PassesEarlierChecks(p) <=> hist[p].resolved
           /\ hist[p].resolved =>
                  req[p].err = NewNotFoundError("Product", req[p].pid)

C4_Witness ==
    \E p \in Procs :
        /\ Done(p)
        /\ req[p].op = "UpdateSubscriptionPlan"
        /\ hist[p].startDead
        /\ hist[p].resolved
        /\ ~hist[p].faulted
        /\ req[p].err = NewNotFoundError("Product", req[p].pid)

\* C5 (as claimed): no plan is ever inserted or updated at a step where its
\* product is tombstoned.
C5_Original ==
    \A p \in Procs : ~hist[p].deadAtWrite

\* C5 (amended): whenever a plan is inserted or updated, its product was
\* live at the product-resolution read of the same request, which precedes
\* the write; a DeleteProduct between that read and the write is not seen.
C5_ProductLiveWhenResolved ==
    \A p \in Procs :
        (req[p].op \in PlanWriteOps /\ hist[p].wrote)
        => hist[p].resolved /\ hist[p].seenLive

C5_Witness ==
    \E p \in Procs :
        /\ req[p].op \in PlanWriteOps
        /\ hist[p].wrote
        /\ hist[p].seenLive
        /\ hist[p].deadAtWrite

CheckThenWriteOps ==
    {"UpdateProduct", "DeleteProduct", "UpdateSubscriptionPlan", "DeleteSubscriptionPlan"}

\* the entity was live at the existence read and tombstoned when the write
\* was issued
LostRace(p) ==
    /\ req[p].op \in CheckThenWriteOps
    /\ hist[p].checked
    /\ hist[p].atWrite
    /\ hist[p].goneAtWrite

\* C6: an Update or Delete whose entity is deleted by another request
\* between its existence read and its write returns a DatabaseError,
\* neither a NotFoundError nor success.
C6_LostRaceIsDatabaseError ==
    \A p \in Procs :
        LostRace(p)
        => /\ Done(p)
           /\ req[p].err.kind = "Database"
           /\ ~IsNotFoundError(req[p].err)
           /\ ~IsValidationError(req[p].err)

C6_Witness ==
    \E p \in Procs :
        /\ LostRace(p)
        /\ ~hist[p].faulted
        /\ req[p].op = "UpdateSubscriptionPlan"
        /\ req[p].err.kind = "Database"

\* C7: every error a service operation returns is a ValidationError, a
\* NotFoundError or a DatabaseError.
C7_OnlyTaxonomyErrors ==
    \A p \in Procs :
        Failed(p) => req[p].err.kind \in {"Validation", "NotFound", "Database"}

\* C8: an operation one of whose storage calls failed with a fault that is
\* not the not-found signal returns a DatabaseError.
C8_FaultIsDatabaseError ==
    \A p \in Procs :
        (Done(p) /\ hist[p].faulted) => req[p].err.kind = "Database"

GetOps == {"GetProduct", "GetSubscriptionPlan"}

Resource(op) == IF op \in ProductOps THEN "Product" ELSE "SubscriptionPlan"

\* C9: a Get of an id whose entity was tombstoned before the call returns
\* NotFoundError(resource, id) and no entity.
C9_GetAfterDelete ==
    \A p \in Procs :
        (Done(p) /\ req[p].op \in GetOps /\ hist[p].startGone)
        => /\ req[p].err = NewNotFoundError(Resource(req[p].op), req[p].id)
           /\ req[p].ent = <<>>

C9_Witness ==
    \E p \in Procs :
        /\ Done(p)
        /\ req[p].op = "GetSubscriptionPlan"
        /\ hist[p].startGone
        /\ ~hist[p].faulted
        /\ IsNotFoundError(req[p].err)

\* the caller-supplied fields of a stored entity
Supplied(op, e) ==
    IF op \in ProductOps
      THEN [name |-> e.name, description |-> e.description, price |-> e.price,
            productType |-> e.productType]
      ELSE [productId |-> e.productId, planName |-> e.planName,
            duration |-> e.duration, price |-> e.price]

\* C10: a successful Create returns an entity with a non-nil id, and a Get of
\* that id, while no Update or Delete of it has been applied and storage
\* answers, returns the entity with that id and the fields of the Create.
C10_CreateGetRoundTrip ==
    \A p \in Procs :
        /\ ( /\ Done(p)
             /\ req[p].op \in {"CreateProduct", "CreateSubscriptionPlan"}
             /\ req[p].err = NoErr )
           => /\ Len(req[p].ent) = 1
              /\ req[p].ent[1].id # NilUUID
              /\ req[p].ent[1].id \in DOMAIN pristine
        /\ ( /\ Done(p)
             /\ req[p].op \in GetOps
             /\ hist[p].expect # {}
             /\ ~hist[p].faulted )
           => /\ req[p].err = NoErr
              /\ Len(req[p].ent) = 1
              /\ req[p].ent[1].id = req[p].uid
              /\ req[p].ent[1].id # NilUUID
              /\ hist[p].expect = {Supplied(req[p].op, req[p].ent[1])}

C10_Witness ==
    \E p \in Procs :
        /\ Done(p)
        /\ req[p].op = "GetProduct"
        /\ hist[p].expect = {ValidProduct2}
        /\ req[p].err = NoErr

UpdateOps == {"UpdateProduct", "UpdateSubscriptionPlan"}

\* the values an Update request supplies
SuppliedBy(p) ==
    IF req[p].op \in ProductOps THEN req[p].in
    ELSE [productId |-> req[p].upid, planName |-> req[p].in.planName,
          duration |-> req[p].in.duration, price |-> req[p].in.price]

\* C11: after a successful UpdateProduct or UpdateSubscriptionPlan the
\* returned entity and the stored row carry exactly the supplied values,
\* price 0 and an empty description included.
C11_UpdateAppliesAllFields ==
    \A p \in Procs :
        (Done(p) /\ req[p].op \in UpdateOps /\ req[p].err = NoErr)
        => /\ Len(req[p].ent) = 1
           /\ Supplied(req[p].op, req[p].ent[1]) = SuppliedBy(p)
           /\ LET tbl == IF req[p].op \in ProductOps THEN products ELSE plans
              IN Supplied(req[p].op, tbl[req[p].uid]) = SuppliedBy(p)

\* ============================================ the pure functions, alone
PureNames == {"", "W", "Widget", Name255, Name256}

PurePrices == {-1, 0, 9}

PureTypes == {"", "digital"}

PureDurations == {-1, 0, 1, 30, 3650, 3651}

\* error values, with DatabaseErrors that wrap errors of every kind
PureErrors ==
    LET flat == { NewValidationError("name", "product name is required"),
                  NewNotFoundError("Product", UUIDString(1)),
                  RawErr("product not found"),
                  ErrConn }
        wrapped == { NewDatabaseError("update product", e) : e \in flat }
    IN flat \cup wrapped \cup { NewDatabaseError("create product", e) : e \in wrapped }

ApplyValidateProductInput(p, name, price, productType) ==
    /\ req[p].op = "idle"
    /\ req' = [req EXCEPT ![p] =
           [IdleReq EXCEPT
              !.op = "validateProductInput", !.pc = "done",
              !.in = [name |-> name, price |-> price, productType |-> productType],
              !.err = ValidateProductInput(name, price, productType)]]
    /\ UNCHANGED <<products, plans, nextId, hist, pristine>>

ApplyValidateSubscriptionInput(p, planName, duration, price) ==
    /\ req[p].op = "idle"
    /\ req' = [req EXCEPT ![p] =
           [IdleReq EXCEPT
              !.op = "validateSubscriptionInput", !.pc = "done",
              !.in = [planName |-> planName, duration |-> duration, price |-> price],
              !.err = ValidateSubscriptionInput(planName, duration, price)]]
    /\ UNCHANGED <<products, plans, nextId, hist, pristine>>

\* the three predicates and mapServiceError applied to one error value:
\* ent holds <<IsValidationError, IsNotFoundError, IsDatabaseError>>
ApplyClassify(p, err) ==
    /\ req[p].op = "idle"
    /\ req' = [req EXCEPT ![p] =
           [IdleReq EXCEPT
              !.op = "mapServiceError", !.pc = "done", !.err = err,
              !.ent = <<IsValidationError(err), IsNotFoundError(err),
                        IsDatabaseError(err)>>,
              !.status = MapServiceError(err)]]
    /\ UNCHANGED <<products, plans, nextId, hist, pristine>>

NextPure ==
    LET p == "r1" IN
        \/ \E name \in PureNames, price \in PurePrices, productType \in PureTypes :
               ApplyValidateProductInput(p, name, price, productType)
        \/ \E planName \in PureNames, duration \in PureDurations, price \in PurePrices :
               ApplyValidateSubscriptionInput(p, planName, duration, price)
        \/ \E err \in PureErrors : ApplyClassify(p, err)
        \/ Respond(p)

SpecPure == Init /\ [][NextPure]_vars

\* the field of the first failing rule of validateProduct, in the stated order
FirstProductRule(a) ==
    IF a.name = "" THEN "name"
    ELSE IF Len(a.name) > 255 THEN "name"
    ELSE IF a.price < 0 THEN "price"
    ELSE IF a.productType = "" THEN "productType"
    ELSE "none"

Validated(p, fn) == Done(p) /\ req[p].op = fn

\* C12: validateProduct returns the error of the first failing rule in the
\* order name empty, name longer than 255, price negative, type empty, and
\* no error exactly when 1 <= length(name) <= 255, price >= 0 and the type
\* is non-empty.
C12_ValidateProductOrder ==
    \A p \in Procs :
        Validated(p, "validateProductInput")
        => LET a == req[p].in
               e == req[p].err
           IN /\ (e = NoErr) <=> /\ 1 <= Len(a.name) /\ Len(a.name) <= 255
                                 /\ a.price >= 0
                                 /\ a.productType # ""
              /\ e # NoErr => /\ e.kind = "Validation"
                              /\ e.field = FirstProductRule(a)

\* a 256-character name is rejected on "name" although price and type fail too
C12_Witness ==
    /\ Validated("r1", "validateProductInput")
    /\ Len(req["r1"].in.name) = 256
    /\ req["r1"].in.price < 0
    /\ req["r1"].in.productType = ""
    /\ req["r1"].err.kind = "Validation"
    /\ req["r1"].err.field = "name"

\* the field of the first failing rule of validateSubscription
FirstSubscriptionRule(a) ==
    IF a.planName = "" THEN "planName"
    ELSE IF Len(a.planName) > 255 THEN "planName"
    ELSE IF a.duration <= 0 THEN "duration"
    ELSE IF a.duration > 3650 THEN "duration"
    ELSE IF a.price < 0 THEN "price"
    ELSE "none"

\* C13: validateSubscription returns the error of the first failing rule in
\* the order planName empty, planName longer than 255, duration <= 0,
\* duration > 3650, price negative, and no error exactly when
\* 1 <= length(planName) <= 255, 1 <= duration <= 3650 and price >= 0.
C13_ValidateSubscriptionOrder ==
    \A p \in Procs :
        Validated(p, "validateSubscriptionInput")
        => LET a == req[p].in
               e == req[p].err
           IN /\ (e = NoErr) <=> /\ 1 <= Len(a.planName) /\ Len(a.planName) <= 255
                                 /\ 1 <= a.duration /\ a.duration <= 3650
                                 /\ a.price >= 0
              /\ e # NoErr => /\ e.kind = "Validation"
                              /\ e.field = FirstSubscriptionRule(a)
              /\ a.duration <= 0 /\ FirstSubscriptionRule(a) = "duration"
                 => e.message = "duration must be positive"

\* duration 3650 with a 255-character plan name is accepted
C13_Witness ==
    /\ Validated("r1", "validateSubscriptionInput")
    /\ req["r1"].in.duration = 3650
    /\ Len(req["r1"].in.planName) = 255
    /\ req["r1"].err = NoErr

\* C14 as stated: a negative price yields a ValidationError on field
\* "price" whatever the other arguments are.
C14_Original ==
    \A p \in Procs :
        /\ Done(p)
        /\ req[p].op \in {"validateProductInput", "validateSubscriptionInput"}
        /\ req[p].in.price < 0
        => /\ req[p].err.kind = "Validation"
           /\ req[p].err.field = "price"

\* the rules tested before the price rule all pass
EarlierRulesPass(op, a) ==
    IF op = "validateProductInput"
      THEN a.name # "" /\ Len(a.name) <= 255
      ELSE /\ a.planName # "" /\ Len(a.planName) <= 255
           /\ 1 <= a.duration /\ a.duration <= 3650

\* C14: a negative price always yields a ValidationError; its field is
\* "price" whenever the rules tested earlier pass (the name for a product,
\* the plan name and the duration for a subscription), whatever the product
\* type is.
C14_NegativePriceRejected ==
    \A p \in Procs :
        /\ Done(p)
        /\ req[p].op \in {"validateProductInput", "validateSubscriptionInput"}
        /\ req[p].in.price < 0
        => /\ req[p].err.kind = "Validation"
           /\ EarlierRulesPass(req[p].op, req[p].in) => req[p].err.field = "price"

\* a negative price with an empty product type is rejected on "price"
C14_Witness ==
    /\ Validated("r1", "validateProductInput")
    /\ req["r1"].in.price < 0
    /\ req["r1"].in.productType = ""
    /\ EarlierRulesPass("validateProductInput", req["r1"].in)
    /\ req["r1"].err.field = "price"

\* the identifier tokens a finished request has parsed, with the call site:
\* an entity id is parsed first; the product reference of a plan request
\* is parsed once the checks that precede it have passed
SitesReached(p) ==
    LET r == req[p]
        fieldsOk == FirstSubscriptionRule(r.in) = "none"
    IN  (IF r.op \in {"GetProduct", "UpdateProduct", "DeleteProduct"}
           THEN {[site |-> "product id", token |-> r.id, uuid |-> r.uid]} ELSE {})
        \cup
        (IF r.op \in {"GetSubscriptionPlan", "UpdateSubscriptionPlan",
                      "DeleteSubscriptionPlan"}
           THEN {[site |-> "plan id", token |-> r.id, uuid |-> r.uid]} ELSE {})
        \cup
        (IF \/ r.op = "ListSubscriptionPlans"
            \/ r.op = "CreateSubscriptionPlan" /\ fieldsOk
            \/ r.op = "UpdateSubscriptionPlan" /\ hist[p].checked /\ fieldsOk
           THEN {[site |-> "product reference", token |-> r.pid, uuid |-> r.upid]}
           ELSE {})

WellFormed(token) == token[1] \in {"canon", "urn"}

\* C15 as stated: at every call site an empty or malformed token yields a
\* ValidationError on field "id", and a well-formed token yields its
\* identifier with no side effect.
C15_Original ==
    \A p \in Procs :
        Done(p) =>
          \A s \in SitesReached(p) :
              IF WellFormed(s.token) THEN s.uuid = s.token[2]
              ELSE /\ req[p].err.kind = "Validation"
                   /\ req[p].err.field = "id"
                   /\ ~hist[p].wrote

\* the field and the wording parseProductID and parsePlanID use
FieldAt(site) == IF site = "plan id" THEN "id" ELSE "productId"

\* C15: at every call site an empty token yields a ValidationError
\* "<noun> ID is required", a malformed token a ValidationError
\* "invalid <noun> ID format", and a well-formed token its identifier and no
\* parse error; nothing is written when parsing fails. The field is "id"
\* with noun "subscription plan" for a plan id, and "productId" with noun
\* "product" for a product id and for the product reference of a plan request.
C15_ParseBySite ==
    \A p \in Procs :
        Done(p) =>
          \A s \in SitesReached(p) :
              LET required == NewValidationError(FieldAt(s.site),
                                  IF s.site = "plan id"
                                    THEN "subscription plan ID is required"
                                    ELSE "product ID is required")
                  format == NewValidationError(FieldAt(s.site),
                                  IF s.site = "plan id"
                                    THEN "invalid subscription plan ID format"
                                    ELSE "invalid product ID format")
              IN IF s.token = EmptyStr THEN req[p].err = required /\ ~hist[p].wrote
                 ELSE IF ~WellFormed(s.token)
                   THEN req[p].err = format /\ ~hist[p].wrote
                 ELSE /\ s.uuid = s.token[2]
                      /\ req[p].err \notin {required, format}

\* an update of a live plan with valid fields and a malformed product
\* reference is rejected on field "productId"
C15_Witness ==
    /\ Done("r1")
    /\ req["r1"].op = "UpdateSubscriptionPlan"
    /\ hist["r1"].checked
    /\ FirstSubscriptionRule(req["r1"].in) = "none"
    /\ req["r1"].pid = BadStr
    /\ req["r1"].err = NewValidationError("productId", "invalid product ID format")

\* C16: ListProducts calls storage.List exactly once, with page' = 1 if
\* page < 1 else page and pageSize' = 10 if pageSize < 1, 100 if
\* pageSize > 100, else pageSize, so page' >= 1 and 1 <= pageSize' <= 100;
\* (0, 0) gives the result of (1, 10) and pageSize 1000 that of pageSize 100.
C16_ListProductsNormalizes ==
    \A p \in Procs :
        (req[p].op = "ListProducts" /\ req[p].pc # "idle")
        => LET g == hist[p].given
               a == req[p].in
               all == ProductMatching(products, g.productType)
               as(page, pageSize) ==
                   {ProductRepoFind(products, g.productType, page, pageSize,
                                    order, FALSE).ent : order \in Orders(all)}
               count == ProductRepoCount(products, g.productType, FALSE).total
           IN /\ a.productType = g.productType
              /\ a.page = (IF g.page < 1 THEN 1 ELSE g.page)
              /\ a.pageSize = (IF g.pageSize < 1 THEN 10
                               ELSE IF g.pageSize > 100 THEN 100 ELSE g.pageSize)
              /\ a.page >= 1 /\ 1 <= a.pageSize /\ a.pageSize <= 100
              /\ hist[p].calls = (IF req[p].pc = "list" THEN << >>
                                   ELSE << <<"product", "List">> >>)
              /\ (Done(p) /\ req[p].err = NoErr) =>
                   /\ (g.page = 0 /\ g.pageSize = 0) =>
                        /\ req[p].ent \in as(1, 10)
                        /\ req[p].total = count
                   /\ g.pageSize = 1000 =>
                        /\ req[p].ent \in as(a.page, 100)
                        /\ req[p].total = count

\* a list with pageSize 1000 over a non-empty table reached storage as 100
C16_Witness ==
    /\ Done("r1")
    /\ req["r1"].op = "ListProducts"
    /\ hist["r1"].given.pageSize = 1000
    /\ req["r1"].in.pageSize = 100
    /\ req["r1"].err = NoErr
    /\ Len(req["r1"].ent) >= 1

\* C17: ListSubscriptionPlans returns a ValidationError for an empty or
\* malformed productId; for a well-formed productId that matches no live
\* product it returns an empty list and no error, and never consults
\* product storage.
C17_ListPlansOfNoLiveProduct ==
    \A p \in Procs :
        (Done(p) /\ req[p].op = "ListSubscriptionPlans" /\ ~hist[p].faulted)
        => /\ ~WellFormed(req[p].pid) => req[p].err.kind = "Validation"
           /\ \A c \in 1..Len(hist[p].calls) : hist[p].calls[c][1] # "product"
           /\ (WellFormed(req[p].pid) /\ ~Live(products, req[p].upid))
              => req[p].err = NoErr /\ req[p].ent = << >>

\* the product-resolution read
ProductLookup == <<"product", "GetByID">>

\* the positions of the storage calls of p made before the product lookup
BeforeLookup(p) ==
    {c \in 1..Len(hist[p].calls) :
        \A d \in 1..c : hist[p].calls[d] # ProductLookup}

\* the product lookup ran and did not find the product
Unresolved(p) ==
    /\ Done(p)
    /\ hist[p].resolved
    /\ req[p].err = NewNotFoundError("Product", req[p].pid)

\* C18 as stated: in CreateSubscriptionPlan and UpdateSubscriptionPlan no
\* call to SubscriptionPlan storage, read or write, precedes the product
\* lookup, and when the product does not resolve SubscriptionPlan storage has
\* not been touched at all.
C18_Original ==
    \A p \in Procs :
        req[p].op \in PlanWriteOps
        => /\ \A c \in BeforeLookup(p) : hist[p].calls[c][1] # "subscription"
           /\ Unresolved(p) =>
                \A c \in 1..Len(hist[p].calls) : hist[p].calls[c][1] # "subscription"

\* C18: in CreateSubscriptionPlan and UpdateSubscriptionPlan no write to
\* SubscriptionPlan storage precedes the product lookup; Create makes no
\* SubscriptionPlan storage call before it, and the only one Update makes is
\* its first call, the existence read of the plan. When the product does
\* not resolve, nothing has been written to either table.
C18_NoPlanWriteBeforeLookup ==
    \A p \in Procs :
        req[p].op \in PlanWriteOps
        => /\ \A c \in BeforeLookup(p) :
                /\ req[p].op = "UpdateSubscriptionPlan"
                /\ c = 1
                /\ hist[p].calls[c] = <<"subscription", "GetByID">>
           /\ Unresolved(p) =>
                /\ ~hist[p].wrote
                /\ ~hist[p].atWrite
                /\ \A c \in 1..Len(hist[p].calls) :
                      hist[p].calls[c][2] \in {"GetByID"}

\* an update of a live plan whose product does not resolve: the plan was
\* read, then the product looked up, and nothing else
C18_Witness ==
    /\ Unresolved("r1")
    /\ req["r1"].op = "UpdateSubscriptionPlan"
    /\ hist["r1"].calls = << <<"subscription", "GetByID">>, ProductLookup >>

DeleteOps == {"DeleteProduct", "DeleteSubscriptionPlan"}

TableName(op) == IF op \in ProductOps THEN "product" ELSE "subscription"

\* C19: DeleteProduct and DeleteSubscriptionPlan on a well-formed id of an
\* absent or tombstoned entity return NotFoundError(resource, id), never
\* call storage.Delete and write nothing; storage.Delete is only ever called
\* after the existence read of the same table succeeded.
C19_DeleteOfMissing ==
    \A p \in Procs :
        req[p].op \in DeleteOps
        => LET calls == hist[p].calls
               deletes == {c \in 1..Len(calls) : calls[c][2] = "Delete"}
           IN /\ (Done(p) /\ WellFormed(req[p].id) /\ hist[p].startGone)
                 => /\ req[p].err = NewNotFoundError(Resource(req[p].op), req[p].id)
                    /\ deletes = {}
                    /\ ~hist[p].atWrite
                    /\ ~hist[p].wrote
                    /\ ~Live(IF req[p].op \in ProductOps THEN products ELSE plans,
                             req[p].uid)
              /\ \A c \in deletes :
                    /\ hist[p].checked
                    /\ c = 2
                    /\ calls[1] = <<TableName(req[p].op), "GetByID">>
                    /\ calls[c][1] = TableName(req[p].op)

\* a second DeleteProduct of a tombstoned product: only the read was made
C19_Witness ==
    /\ Done("r1")
    /\ req["r1"].op = "DeleteProduct"
    /\ Tombstoned(products, req["r1"].uid)
    /\ hist["r1"].startGone
    /\ ~hist["r1"].faulted
    /\ hist["r1"].calls = << <<"product", "GetByID">> >>
    /\ req["r1"].err = NewNotFoundError("Product", req["r1"].id)

\* C20: for every error value, a DatabaseError that wraps a ValidationError
\* or a NotFoundError included, at most one of IsValidationError,
\* IsNotFoundError and IsDatabaseError holds.
C20_PredicatesExclusive ==
    \A p \in Procs :
        (Done(p) /\ req[p].op = "mapServiceError")
        => Cardinality({i \in 1..3 : req[p].ent[i]}) <= 1

ValidProductRow(row) ==
    /\ row.name # "" /\ Len(row.name) <= 255
    /\ row.price >= 0
    /\ row.productType # ""

ValidPlanRow(row) ==
    /\ row.planName # "" /\ Len(row.planName) <= 255
    /\ 1 <= row.duration /\ row.duration <= 3650
    /\ row.price >= 0

\* C21: every stored Product, live or tombstoned, has a non-empty name of
\* length <= 255, a price >= 0 and a non-empty type, and every stored
\* SubscriptionPlan a non-empty plan name of length <= 255, a duration in
\* 1..3650 and a price >= 0.
C21_StoredFieldsValid ==
    /\ \A id \in DOMAIN products : ValidProductRow(products[id])
    /\ \A id \in DOMAIN plans : ValidPlanRow(plans[id])

\* an update with an over-long name was rejected while rows are stored
C21_Witness ==
    /\ Done("r1")
    /\ req["r1"].op = "UpdateProduct"
    /\ hist["r1"].checked
    /\ Len(req["r1"].in.name) = 256
    /\ req["r1"].err = NewValidationError("name",
                           "product name must be less than 255 characters")
    /\ DOMAIN plans # {}

CreateOps == {"CreateProduct", "CreateSubscriptionPlan"}

\* every entity created so far, tombstoned ones included
Created == DOMAIN products \cup DOMAIN plans

\* C22: a successful Create returns and stores an entity whose identifier
\* differs from that of every entity created before it, tombstoned ones
\* included, and no step ever changes the identifier of a stored entity or
\* removes it.
C22_IdentifiersFreshAndFixed ==
    [][ /\ \A p \in Procs :
              (~Done(p) /\ Done(p)' /\ req'[p].op \in CreateOps /\ req'[p].err = NoErr)
              => LET id == req'[p].ent[1].id
                 IN /\ id # NilUUID
                    /\ id \notin Created
                    /\ IF req'[p].op = "CreateProduct"
                         THEN id \in DOMAIN products' /\ id \notin DOMAIN plans'
                         ELSE id \in DOMAIN plans' /\ id \notin DOMAIN products'
        /\ \A id \in DOMAIN products :
              id \in DOMAIN products' /\ products'[id].id = products[id].id
        /\ \A id \in DOMAIN plans :
              id \in DOMAIN plans' /\ plans'[id].id = plans[id].id
        /\ \A id \in DOMAIN products' : products'[id].id = id
        /\ \A id \in DOMAIN plans' : plans'[id].id = id
      ]_vars

\* a product was created after another entity had been tombstoned
C22_Witness ==
    /\ Done("r1")
    /\ req["r1"].op = "CreateProduct"
    /\ req["r1"].err = NoErr
    /\ \E id \in Created \ {req["r1"].ent[1].id} :
          Tombstoned(products, id) \/ Tombstoned(plans, id)

\* p makes a storage call in this step
StorageCall(p) == Len(hist'[p].calls) = Len(hist[p].calls) + 1

\* C23: the cancellation signal of a request reaches every storage call it
\* makes, so a storage call made after the request was cancelled changes
\* nothing, and a cancelled request is never reported as a DatabaseError.
C23_CancellationReachesStorage ==
    [][ \A p \in Procs :
           /\ (hist[p].cancelled /\ StorageCall(p))
              => products' = products /\ plans' = plans
           /\ (hist'[p].cancelled /\ Done(p)')
              => req'[p].err.kind # "Database"
      ]_vars

\* field validation or identifier parsing fails for the request of p
InputRejected(p) ==
    LET r == req[p] IN
    CASE r.op = "CreateProduct" -> FirstProductRule(r.in) # "none"
      [] r.op = "CreateSubscriptionPlan" ->
             FirstSubscriptionRule(r.in) # "none" \/ ~WellFormed(r.pid)
      [] r.op \in GetOps -> ~WellFormed(r.id)
      [] r.op = "ListSubscriptionPlans" -> ~WellFormed(r.pid)
      [] OTHER -> FALSE

\* C24: when field validation or identifier parsing fails in CreateProduct,
\* CreateSubscriptionPlan, GetProduct, GetSubscriptionPlan or
\* ListSubscriptionPlans, the operation finishes at once with the
\* ValidationError, no result and no storage call on either repository.
C24_RejectedBeforeStorage ==
    \A p \in Procs :
        (req[p].op # "idle" /\ InputRejected(p))
        => /\ Done(p)
           /\ req[p].err.kind = "Validation"
           /\ req[p].ent = << >>
           /\ req[p].total = 0
           /\ hist[p].calls = << >>
           /\ ~hist[p].atWrite

\* a plan with valid fields and a malformed product reference is rejected
\* while products are stored
C24_Witness ==
    /\ Done("r1")
    /\ req["r1"].op = "CreateSubscriptionPlan"
    /\ FirstSubscriptionRule(req["r1"].in) = "none"
    /\ req["r1"].pid = BadStr
    /\ req["r1"].err.kind = "Validation"
    /\ hist["r1"].calls = << >>
    /\ \E id \in DOMAIN products : Live(products, id)

\* C25: UpdateProduct checks the id format, then existence, then the
\* fields: a malformed id gives a ValidationError without any storage call;
\* a well-formed id of an absent or tombstoned product gives NotFoundError
\* even with invalid fields; invalid fields for a live product give the
\* ValidationError of the first failing rule; storage.Update is called only
\* after all three checks passed.
C25_UpdateProductOrder ==
    \A p \in Procs :
        req[p].op = "UpdateProduct"
        => LET r == req[p]
               calls == hist[p].calls
               read == << <<"product", "GetByID">> >>
           IN /\ (Done(p) /\ ~WellFormed(r.id))
                 => r.err.kind = "Validation" /\ calls = << >>
              /\ (Done(p) /\ WellFormed(r.id) /\ ~Live(products, r.uid))
                 => r.err = NewNotFoundError("Product", r.id) /\ calls = read
              /\ (Done(p) /\ hist[p].checked /\ FirstProductRule(r.in) # "none")
                 => /\ r.err.kind = "Validation"
                    /\ r.err.field = FirstProductRule(r.in)
                    /\ calls = read
              /\ \A c \in 1..Len(calls) :
                    calls[c][2] = "Update"
                    => /\ c = 2
                       /\ WellFormed(r.id)
                       /\ hist[p].checked
                       /\ FirstProductRule(r.in) = "none"

\* an update of an absent product with invalid fields is reported not found
C25_Witness ==
    /\ Done("r1")
    /\ req["r1"].op = "UpdateProduct"
    /\ WellFormed(req["r1"].id)
    /\ req["r1"].uid \notin DOMAIN products
    /\ ~hist["r1"].faulted
    /\ FirstProductRule(req["r1"].in) # "none"
    /\ req["r1"].err = NewNotFoundError("Product", req["r1"].id)

\* the storage calls of each operation, in the order of its code
FixedOrder(op) ==
    CASE op = "CreateProduct" -> << <<"product", "Create">> >>
      [] op = "GetProduct" -> << <<"product", "GetByID">> >>
      [] op = "UpdateProduct" ->
             << <<"product", "GetByID">>, <<"product", "Update">>,
                <<"product", "GetByID">> >>
      [] op = "DeleteProduct" -> << <<"product", "GetByID">>, <<"product", "Delete">> >>
      [] op = "ListProducts" -> << <<"product", "List">> >>
      [] op = "CreateSubscriptionPlan" ->
             << <<"product", "GetByID">>, <<"subscription", "Create">> >>
      [] op = "GetSubscriptionPlan" -> << <<"subscription", "GetByID">> >>
      [] op = "UpdateSubscriptionPlan" ->
             << <<"subscription", "GetByID">>, <<"product", "GetByID">>,
                <<"subscription", "Update">>, <<"subscription", "GetByID">> >>
      [] op = "DeleteSubscriptionPlan" ->
             << <<"subscription", "GetByID">>, <<"subscription", "Delete">> >>
      [] op = "ListSubscriptionPlans" -> << <<"subscription", "ListByProductID">> >>
      [] OTHER -> << >>

IsPrefix(s, t) == Len(s) <= Len(t) /\ \A i \in 1..Len(s) : s[i] = t[i]

\* the storage call p makes in this step fails: a connection fault, or a
\* GetByID, Update or Delete of a row that is not live
CallFails(p) ==
    LET call == hist'[p].calls[Len(hist'[p].calls)]
        tbl == IF call[1] = "product" THEN products ELSE plans
        id == IF call[1] = "product" /\ req[p].op \in SubscriptionOps
                THEN req[p].upid ELSE req[p].uid
    IN \/ hist'[p].faulted /\ ~hist[p].faulted
       \/ call[2] \in {"GetByID", "Update", "Delete"} /\ ~Live(tbl, id)

\* C26: no operation retries: the storage calls of an operation are a
\* prefix of its fixed sequence, each step of the sequence made at most
\* once (UpdateProduct and UpdateSubscriptionPlan read the entity at two
\* steps: the existence check and the final re-read), and the operation
\* returns right after the first storage call that fails.
C26_NoRetry ==
    [][ \A p \in Procs :
           /\ IsPrefix(hist'[p].calls, FixedOrder(req'[p].op))
           /\ StorageCall(p) =>
                /\ ~Done(p)
                /\ ~hist[p].faulted
                /\ CallFails(p) => Done(p)' /\ req'[p].err # NoErr
      ]_vars

\* the write of an UpdateSubscriptionPlan failed: no re-read follows
C26_Witness ==
    /\ Done("r1")
    /\ req["r1"].op = "UpdateSubscriptionPlan"
    /\ hist["r1"].faulted
    /\ req["r1"].err.kind = "Database"
    /\ hist["r1"].calls = << <<"subscription", "GetByID">>, <<"product", "GetByID">>,
                             <<"subscription", "Update">> >>

IdsOf(rows) == {rows[i].id : i \in 1..Len(rows)}

\* no repository read returns a tombstoned row
TombstonedHidden(prods, pls) ==
    /\ \A id \in DOMAIN prods :
          prods[id].deleted
          => /\ ProductRepoGetByID(prods, id, FALSE)
                  = [ent |-> << >>, err |-> RawErr("product not found")]
             /\ \A t \in {"", "digital", "physical"} :
                   /\ id \notin ProductMatching(prods, t)
                   /\ \A order \in Orders(ProductMatching(prods, t)) :
                         id \notin IdsOf(ProductRepoFind(prods, t, 1, MaxPageSize,
                                                       order, FALSE).ent)
    /\ \A id \in DOMAIN pls :
          pls[id].deleted
          => /\ SubscriptionRepoGetByID(pls, id, FALSE)
                  = [ent |-> << >>, err |-> RawErr("subscription plan not found")]
             /\ \A pid \in UUIDs :
                   \A order \in Orders(PlansOfProduct(pls, pid)) :
                      id \notin IdsOf(SubscriptionRepoListByProductID(pls, pid, order,
                                                                      FALSE).ent)

\* the repository method p calls in this step, and the table it works on
LastCall(p) == hist'[p].calls[Len(hist'[p].calls)]

\* C27: repository Delete tombstones: after a successful Delete the row is
\* still stored, unchanged but for its deletion marker, and GetByID, List
\* and ListByProductID do not return it; a Delete or Update of an id with
\* no live row fails with "<entity> not found" and changes nothing.
C27_DeleteTombstones ==
    [][ /\ (products' # products \/ plans' # plans)
           => TombstonedHidden(products', plans')
        /\ \A p \in Procs :
              (StorageCall(p) /\ LastCall(p)[2] \in {"Update", "Delete"}
                 /\ hist'[p].faulted = hist[p].faulted)
              => LET id == req[p].uid
                     tbl == IF LastCall(p)[1] = "product" THEN products ELSE plans
                     tbl2 == IF LastCall(p)[1] = "product" THEN products' ELSE plans'
                     noun == IF LastCall(p)[1] = "product"
                               THEN "product" ELSE "subscription plan"
                 IN IF ~Live(tbl, id)
                      THEN /\ products' = products /\ plans' = plans
                           /\ req'[p].err.kind = "Database"
                           /\ req'[p].err.cause.kind = "raw"
                           /\ req'[p].err.cause = RawErr(noun \o " not found")
                    ELSE LastCall(p)[2] = "Delete"
                         => /\ tbl2 = [tbl EXCEPT ![id].deleted = TRUE]
                            /\ id \in DOMAIN tbl2
                            /\ req'[p].err = NoErr
      ]_vars

\* a Delete reached the repository after another request had tombstoned
\* the row, which is still stored
C27_Witness ==
    /\ Done("r1")
    /\ req["r1"].op \in DeleteOps
    /\ hist["r1"].checked
    /\ hist["r1"].goneAtWrite
    /\ ~hist["r1"].faulted
    /\ req["r1"].err.kind = "Database"
    /\ Tombstoned(IF req["r1"].op \in ProductOps THEN products ELSE plans,
                  req["r1"].uid)

\* the live products a type filter selects
Matching(productType) ==
    {id \in DOMAIN products :
        /\ ~products[id].deleted
        /\ (productType = "" \/ products[id].productType = productType)}

\* the page of the live matching rows a successful Find step returns, at
\* positions (page-1)*pageSize .. page*pageSize-1 of the order the database
\* returned them in
PageReturned(p) ==
    LET a == req[p].in
        ent == req'[p].ent
        all == Matching(a.productType)
        n == Cardinality(all)
        first == (a.page - 1) * a.pageSize
        rest == IF n > first THEN n - first ELSE 0
    IN /\ a.page >= 1 /\ a.pageSize >= 1
       /\ Len(ent) <= a.pageSize
       /\ Len(ent) = (IF rest < a.pageSize THEN rest ELSE a.pageSize)
       /\ \A i \in 1..Len(ent) : ent[i].id \in all /\ ent[i] = products[ent[i].id]
       /\ \A i, k \in 1..Len(ent) : i # k => ent[i].id # ent[k].id
       /\ \E order \in Orders(all) :
             ent = Slice(RowsOf(products, order), first, a.pageSize)

\* the step on which List returns its result
ListReturns(p) ==
    /\ At(p, "ListProducts", "find")
    /\ req'[p].pc = "done"
    /\ req'[p].err = NoErr

\* C28 as stated: ProductRepository.List with page >= 1 and pageSize >= 1
\* returns the live products matching the type filter (all live products
\* when it is empty) at positions (page-1)*pageSize .. page*pageSize-1, hence
\* at most pageSize of them, while total is the number of all live matching
\* products: the page and the total describe the same table.
C28_Original ==
    [][ \A p \in Procs :
          ListReturns(p)
          => /\ PageReturned(p)
             /\ req'[p].total = Cardinality(Matching(req[p].in.productType))
      ]_vars

\* C28 (amended): List with page >= 1 and pageSize >= 1 counts the live
\* products matching the type filter in one statement and reads the page in
\* a second one: total is the number of live matching products when the
\* Count statement ran, and the entities are the live matching products at
\* positions (page-1)*pageSize .. page*pageSize-1 of the database's order
\* when the Find statement ran, at most pageSize of them.
C28_ListWindow ==
    [][ \A p \in Procs :
          /\ (At(p, "ListProducts", "list") /\ req'[p].pc = "find")
             => req'[p].total = Cardinality(Matching(req[p].in.productType))
          /\ ListReturns(p)
             => /\ PageReturned(p)
                /\ req'[p].total = req[p].total
      ]_vars

\* a product was deleted between the two statements: List returns the one
\* live product with a total of two
C28_Witness ==
    /\ Done("r1")
    /\ req["r1"].op = "ListProducts"
    /\ req["r1"].err = NoErr
    /\ Len(req["r1"].ent) = 1
    /\ req["r1"].total = 2
    /\ Cardinality(Matching(req["r1"].in.productType)) = 1

\* C29: an operation that returns an error has written nothing: storage is
\* as it was before the call, also when one of its storage calls failed.
C29_ErrorLeavesStorageUnchanged ==
    \A p \in Procs : Failed(p) => ~hist[p].wrote

\* the table an operation on its own entity works on
TableOf(op) == IF op \in ProductOps THEN products ELSE plans

\* C30: a tombstoned entity never becomes live again: its row stays as it
\* is at every step, no Create returns its identifier, and every Update or
\* Delete called on its id after the tombstone was set returns
\* NotFoundError(resource, id) without any write.
C30_TombstoneIsFinal ==
    [][ /\ \A id \in DOMAIN products :
              products[id].deleted
              => id \in DOMAIN products' /\ products'[id] = products[id]
        /\ \A id \in DOMAIN plans :
              plans[id].deleted => id \in DOMAIN plans' /\ plans'[id] = plans[id]
        /\ \A p \in Procs :
              (~Done(p) /\ Done(p)')
              => LET r == req'[p] IN
                 /\ (r.op \in CreateOps /\ r.err = NoErr)
                    => ~Tombstoned(products, r.ent[1].id)
                       /\ ~Tombstoned(plans, r.ent[1].id)
                 /\ (r.op \in UpdateOps \cup DeleteOps /\ WellFormed(r.id)
                       /\ Tombstoned(TableOf(r.op), r.uid)
                       /\ (r.op \in DeleteOps => hist'[p].startGone))
                    => /\ r.err = NewNotFoundError(Resource(r.op), r.id)
                       /\ ~hist'[p].atWrite
                       /\ ~hist'[p].wrote
      ]_vars

\* an update with valid fields of a product tombstoned earlier is refused
C30_Witness ==
    /\ Done("r1")
    /\ req["r1"].op = "UpdateProduct"
    /\ Tombstoned(products, req["r1"].uid)
    /\ FirstProductRule(req["r1"].in) = "none"
    /\ ~hist["r1"].faulted
    /\ req["r1"].err = NewNotFoundError("Product", req["r1"].id)

====
